---- MODULE Spec2Model ----
(***************************************************************************)
(* A model of dynamic-docx-generator: the string utilities                 *)
(* (utils/string.ts), the registry helpers (utils/xml.ts), the table and   *)
(* image markup generators (utils/constants.ts, utils/image.ts) and the    *)
(* DocxGenerator class.                                                    *)
(*                                                                         *)
(* Text is a sequence of symbols.  A symbol is a TLA+ string: a string of  *)
(* one character stands for that character, a longer string that starts    *)
(* with "<" stands for one whole XML tag of the markup (its characters     *)
(* never take part in a match on their own).                               *)
(***************************************************************************)
EXTENDS Integers, Sequences, FiniteSets, TLC

VARIABLES
    input,          \* harness: the arguments the pure functions are applied to
    trail,          \* harness: the calls made so far, <<[op, out], ...>>
    templateLoaded, \* DocxGenerator.templateLoaded
    zip,            \* DocxGenerator.zip: the archive's entries
    data,           \* DocxGenerator.data
    headerData,     \* DocxGenerator.headerData
    footerData,     \* DocxGenerator.footerData
    images,         \* DocxGenerator.images
    tables,         \* DocxGenerator.tables
    calls           \* the generate() calls: position and locals of each

harnessVars == <<input, trail>>
genVars == <<templateLoaded, zip, data, headerData, footerData, images, tables, calls>>
vars == <<input, trail, templateLoaded, zip, data, headerData, footerData, images, tables, calls>>

(***************************************************************************)
(* Sequences of symbols                                                    *)
(***************************************************************************)

\* str has pat at position i (String.prototype.includes / a literal RegExp match)
StartsWithAt(str, i, pat) ==
    /\ i + Len(pat) - 1 <= Len(str)
    /\ pat # <<>> => str[i] = pat[1]
    /\ SubSeq(str, i, i + Len(pat) - 1) = pat

Includes(str, pat) ==
    \E i \in 1..(Len(str) + 1) : StartsWithAt(str, i, pat)

\* the least number of a set of positions, 0 when the set is empty
Least(S) == IF S = {} THEN 0 ELSE CHOOSE n \in S : \A m \in S : n <= m

Has(xml, sym) == \E j \in DOMAIN xml : xml[j] = sym
CountSym(xml, sym) == Cardinality({ j \in DOMAIN xml : xml[j] = sym })

IndexFrom(xml, i, sym) == Least({ n \in i..Len(xml) : xml[n] = sym })

RECURSIVE Flatten(_)
Flatten(ss) ==
    IF ss = <<>> THEN <<>> ELSE Head(ss) \o Flatten(Tail(ss))

\* the grave accent character (written by its code point)
BackTick == "U+0060"

\* the replacement string of String.prototype.replace: $$ is "$", $& the match,
\* $ and a grave accent the text before the match, $' the text after it; the patterns of this
\* library have no capture group, so $1..$99 stay as written
RECURSIVE ExpandReplacement(_, _, _, _, _)
ExpandReplacement(rep, i, matched, before, after) ==
    LET at == Least({ n \in i..(Len(rep) - 1) :
                        rep[n] = "$" /\ rep[n + 1] \in {"$", "&", BackTick, "'"} })
    IN  IF at = 0 THEN SubSeq(rep, i, Len(rep))
        ELSE SubSeq(rep, i, at - 1)
             \o (CASE rep[at + 1] = "$" -> <<"$">>
                    [] rep[at + 1] = "&" -> matched
                    [] rep[at + 1] = BackTick -> before
                    [] rep[at + 1] = "'" -> after)
             \o ExpandReplacement(rep, at + 2, matched, before, after)

\* str.replace(new RegExp(escapeRegExp(search), 'g'), replacement): the matches
\* are found left to right in str and do not overlap
RECURSIVE ReplaceFrom(_, _, _, _)
ReplaceFrom(str, i, search, rep) ==
    LET at == Least({ n \in i..Len(str) : StartsWithAt(str, n, search) })
    IN  IF at = 0 THEN SubSeq(str, i, Len(str))
        ELSE SubSeq(str, i, at - 1)
             \o ExpandReplacement(rep, 1, search, SubSeq(str, 1, at - 1),
                                  SubSeq(str, at + Len(search), Len(str)))
             \o ReplaceFrom(str, at + Len(search), search, rep)

replaceAll(str, search, replacement) ==
    IF search = <<>> THEN str ELSE ReplaceFrom(str, 1, search, replacement)

(***************************************************************************)
(* Entity codec (utils/string.ts)                                          *)
(***************************************************************************)

AMP  == <<"&", "a", "m", "p", ";">>
LT   == <<"&", "l", "t", ";">>
GT   == <<"&", "g", "t", ";">>
QUOT == <<"&", "q", "u", "o", "t", ";">>
APOS == <<"&", "a", "p", "o", "s", ";">>

escapeForXml(text) ==
    IF text = <<>> THEN <<>>
    ELSE LET t1 == replaceAll(text, <<"&">>, AMP)
             t2 == replaceAll(t1, <<"<">>, LT)
             t3 == replaceAll(t2, <<">">>, GT)
             t4 == replaceAll(t3, <<"\"">>, QUOT)
         IN  replaceAll(t4, <<"'">>, APOS)

unescapeXml(text) ==
    IF text = <<>> THEN <<>>
    ELSE LET t1 == replaceAll(text, AMP, <<"&">>)
             t2 == replaceAll(t1, LT, <<"<">>)
             t3 == replaceAll(t2, GT, <<">">>)
             t4 == replaceAll(t3, QUOT, <<"\"">>)
         IN  replaceAll(t4, APOS, <<"'">>)

\* a repair that collapses the ampersand last
fixDoubleEscapingAmpLast(content) ==
    LET r2 == replaceAll(content, AMP \o Tail(LT), LT)
        r3 == replaceAll(r2, AMP \o Tail(GT), GT)
        r4 == replaceAll(r3, AMP \o Tail(QUOT), QUOT)
        r5 == replaceAll(r4, AMP \o Tail(APOS), APOS)
    IN  replaceAll(r5, AMP \o Tail(AMP), AMP)

fixDoubleEscaping(content) ==
    LET r1 == replaceAll(content, AMP \o Tail(AMP), AMP)
        r2 == replaceAll(r1, AMP \o Tail(LT), LT)
        r3 == replaceAll(r2, AMP \o Tail(GT), GT)
        r4 == replaceAll(r3, AMP \o Tail(QUOT), QUOT)
    IN  replaceAll(r4, AMP \o Tail(APOS), APOS)

(***************************************************************************)
(* Placeholder matcher (utils/string.ts)                                   *)
(***************************************************************************)

WT  == "<w:t>"
WTP == "<w:t xml:space=\"preserve\">"
WTC == "</w:t>"

\* the tags of the markup that the pattern <w:t[^>]*> matches: the tags whose name
\* begins with w:t.  The empty elements that carry an attribute value (w:tcW,
\* w:trHeight, w:top, ...) are left out: in all markup here the next symbol after
\* one of them is a tag, so no match can start there.
WtLikeTags ==
    { WT, WTP, "<w:tab/>", "<w:tbl>", "<w:tblPr>", "<w:tblGrid>", "<w:tblBorders>",
      "<w:tr>", "<w:trPr>", "<w:tc>", "<w:tcPr>" }

UpperLetters == <<"A", "B", "C", "D", "E", "F", "G", "H", "I", "J", "K", "L", "M",
                  "N", "O", "P", "Q", "R", "S", "T", "U", "V", "W", "X", "Y", "Z">>
LowerLetters == <<"a", "b", "c", "d", "e", "f", "g", "h", "i", "j", "k", "l", "m",
                  "n", "o", "p", "q", "r", "s", "t", "u", "v", "w", "x", "y", "z">>

Range(f) == { f[i] : i \in DOMAIN f }
Letters == Range(UpperLetters) \cup Range(LowerLetters)
WhiteSpace == { " ", "\t", "\n" }

ToLower(c) ==
    IF c \in Range(UpperLetters)
    THEN LowerLetters[CHOOSE i \in DOMAIN UpperLetters : UpperLetters[i] = c]
    ELSE c

Digits == <<"0", "1", "2", "3", "4", "5", "6", "7", "8", "9">>
Punctuation ==
    { "&", ";", "<", ">", "\"", "'", "$", BackTick, "{", "}", "!", ".", ",", "-", "_",
      "/", ":", "(", ")", "[", "]", "=", "#" }

\* the symbols that are one character; every other symbol is a tag
Chars == Letters \cup Range(Digits) \cup Punctuation \cup WhiteSpace
IsChar(x) == x \in Chars

\* content from position i on matches  k_j [^a-zA-Z]* k_j+1 ... k_n \s*  to its end,
\* under the flag i
RECURSIVE MatchKeyFrom(_, _, _, _)
MatchKeyFrom(content, i, key, j) ==
    IF j > Len(key)
    THEN \A n \in i..Len(content) : content[n] \in WhiteSpace
    ELSE /\ i <= Len(content)
         /\ ToLower(content[i]) = ToLower(key[j])
         /\ IF j = Len(key)
            THEN MatchKeyFrom(content, i + 1, key, j + 1)
            ELSE \E f \in 0..(Len(content) - i) :
                    /\ \A n \in (i + 1)..(i + f) : content[n] \notin Letters
                    /\ MatchKeyFrom(content, i + 1 + f, key, j + 1)

\* content matches  \s* k_1 [^a-zA-Z]* ... k_n \s*  as a whole
MatchesSplitPattern(content, key) ==
    \E w \in 0..Len(content) :
        /\ \A n \in 1..w : content[n] \in WhiteSpace
        /\ MatchKeyFrom(content, w + 1, key, 1)

\* the position of the first tag at or after i (Len + 1 when there is none)
NextTag(str, i) ==
    LET at == Least({ n \in i..Len(str) : ~IsChar(str[n]) })
    IN  IF at = 0 THEN Len(str) + 1 ELSE at

\* the end of the match of <w:t[^>]*>\s*pattern\s*</w:t> that starts at i, 0 if none
SplitMatchEnd(str, i, key) ==
    IF str[i] \notin WtLikeTags THEN 0
    ELSE LET e == NextTag(str, i + 1)
         IN  IF e <= Len(str) /\ str[e] = WTC
                /\ MatchesSplitPattern(SubSeq(str, i + 1, e - 1), key)
             THEN e ELSE 0

\* result.replace(regex, replacement) for the split-run pattern, flags gi
RECURSIVE ReplaceSplitFrom(_, _, _, _)
ReplaceSplitFrom(str, i, key, rep) ==
    LET at == Least({ n \in i..Len(str) : SplitMatchEnd(str, n, key) > 0 })
        e == SplitMatchEnd(str, at, key)
    IN  IF at = 0 THEN SubSeq(str, i, Len(str))
        ELSE SubSeq(str, i, at - 1)
             \o ExpandReplacement(rep, 1, SubSeq(str, at, e), SubSeq(str, 1, at - 1),
                                  SubSeq(str, e + 1, Len(str)))
             \o ReplaceSplitFrom(str, e + 1, key, rep)

Braced(name) == <<"{", "{">> \o name \o <<"}", "}">>

replacePlaceholder(content, placeholder, value) ==
    LET safeValue == escapeForXml(value)
        r1 == replaceAll(content, Braced(placeholder), safeValue)
        r2 == replaceAll(r1, <<WT>> \o placeholder \o <<WTC>>,
                         <<WT>> \o safeValue \o <<WTC>>)
    IN  ReplaceSplitFrom(r2, 1, placeholder, <<WT>> \o safeValue \o <<WTC>>)

\* new RegExp in replacePlaceholder throws a SyntaxError ("Nothing to repeat") for
\* a placeholder that holds a quantifier: the characters of the placeholder are
\* joined, unescaped, by [^a-zA-Z]*, so that the quantifier follows a *.  The
\* placeholders here hold letters and these quantifiers only.
Quantifiers == { "*", "+" }
RegExpThrows(placeholder) == \E i \in DOMAIN placeholder : placeholder[i] \in Quantifiers

\* processPlaceholders throws: one of the keys makes replacePlaceholder throw
PlaceholdersThrow(entries) == \E i \in DOMAIN entries : RegExpThrows(entries[i].k)

\* DocxGenerator.processPlaceholders: data is the sequence of the entries of the
\* object, in the order Object.entries gives them
RECURSIVE ReplaceEntries(_, _)
ReplaceEntries(content, entries) ==
    IF entries = <<>> THEN content
    ELSE ReplaceEntries(replacePlaceholder(content, Head(entries).k, Head(entries).v),
                        Tail(entries))

processPlaceholders(content, entries) ==
    fixDoubleEscaping(ReplaceEntries(content, entries))

(***************************************************************************)
(* Table markup generator (utils/constants.ts)                             *)
(***************************************************************************)

\* the empty elements that carry a value, as the template literals write them
TrHeight(v) == "<w:trHeight w:val=\"" \o v \o "\" />"
Jc(v) == "<w:jc w:val=\"" \o v \o "\" />"
Border(edge, sz, color) ==
    "<w:" \o edge \o " w:val=\"single\" w:sz=\"" \o sz \o "\" w:space=\"0\" w:color=\""
    \o color \o "\" />"
GridCol(w) == "<w:gridCol w:w=\"" \o w \o "\" />"
TcW(w) == "<w:tcW w:w=\"" \o w \o "\" w:type=\"dxa\" />"
Shd(fill) == "<w:shd w:val=\"clear\" w:color=\"auto\" w:fill=\"" \o fill \o "\" />"
VAlignCenter == "<w:vAlign w:val=\"center\" />"
RFonts(f) == "<w:rFonts w:ascii=\"" \o f \o "\" w:hAnsi=\"" \o f \o "\" />"
Sz(v) == "<w:sz w:val=\"" \o v \o "\" />"
SzCs(v) == "<w:szCs w:val=\"" \o v \o "\" />"
Color(v) == "<w:color w:val=\"" \o v \o "\" />"
\* a cell margin element, as the tests of the table styles expect it
CellMargin(side, v) == "<w:" \o side \o " w:w=\"" \o v \o "\" w:type=\"dxa\"/>"

BorderEdges == <<"top", "left", "bottom", "right", "insideH", "insideV">>

DEFAULT_TABLE_STYLE ==
    [ headerBgColor |-> "C9DAF8", headerTextColor |-> "000000", borderColor |-> "auto",
      fontSize |-> "24", fontFamily |-> "Times New Roman" ]

\* { ...base, ...over }
Spread(base, over) ==
    [ f \in (DOMAIN base) \cup (DOMAIN over) |->
        IF f \in DOMAIN over THEN over[f] ELSE base[f] ]

\* style.f, "undefined" when the object has no such property
Prop(style, f) == IF f \in DOMAIN style THEN style[f] ELSE "undefined"

\* header.width || 2000: a width is a numeral, "" when the property is not set
WidthOrDefault(w) == IF w \in {"", "0"} THEN "2000" ELSE w

escapeXml(text) ==
    IF text = <<>> THEN <<>>
    ELSE LET t1 == replaceAll(text, <<"&">>, AMP)
             t2 == replaceAll(t1, <<"<">>, LT)
             t3 == replaceAll(t2, <<">">>, GT)
             t4 == replaceAll(t3, <<"\"">>, QUOT)
         IN  replaceAll(t4, <<"'">>, APOS)

HeaderCell(header, style) ==
    LET rPr == <<"<w:rPr>", RFonts(Prop(style, "fontFamily")), "<w:b />",
                 Sz(Prop(style, "fontSize")), SzCs(Prop(style, "fontSize")),
                 Color(Prop(style, "headerTextColor")), "</w:rPr>">>
    IN  <<"<w:tc>", "<w:tcPr>", TcW(WidthOrDefault(header.width)),
          Shd(Prop(style, "headerBgColor")), VAlignCenter, "</w:tcPr>",
          "<w:p>", "<w:pPr>", Jc("center")>> \o rPr \o <<"</w:pPr>", "<w:r>">> \o rPr
        \o <<WT>> \o escapeXml(header.name) \o <<WTC, "</w:r>", "</w:p>", "</w:tc>">>

generateTableHeaderRow(headers, style) ==
    <<"<w:tr>", "<w:trPr>", TrHeight("400"), "</w:trPr>">>
    \o Flatten([i \in 1..Len(headers) |-> HeaderCell(headers[i], style)])
    \o <<"</w:tr>">>

DataCell(cell, width, style) ==
    LET rPr == <<"<w:rPr>", RFonts(Prop(style, "fontFamily")),
                 Sz(Prop(style, "fontSize")), SzCs(Prop(style, "fontSize")), "</w:rPr>">>
    IN  <<"<w:tc>", "<w:tcPr>", TcW(width), VAlignCenter, "</w:tcPr>",
          "<w:p>", "<w:pPr>">> \o rPr \o <<"</w:pPr>", "<w:r>">> \o rPr
        \o <<WT>> \o escapeXml(cell) \o <<WTC, "</w:r>", "</w:p>", "</w:tc>">>

\* a data row with one cell per column, the missing cells left empty
generateTableDataRowPadded(cells, widths, style) ==
    <<"<w:tr>", "<w:trPr>", TrHeight("350"), "</w:trPr>">>
    \o Flatten([i \in 1..Len(widths) |->
                  DataCell(IF i <= Len(cells) THEN cells[i] ELSE <<>>, widths[i], style)])
    \o <<"</w:tr>">>

\* cells.map(...): one cell per value of the row; widths[index] || 2000
generateTableDataRow(cells, widths, style) ==
    <<"<w:tr>", "<w:trPr>", TrHeight("350"), "</w:trPr>">>
    \o Flatten([i \in 1..Len(cells) |->
                  DataCell(cells[i],
                           IF i <= Len(widths) THEN WidthOrDefault(widths[i]) ELSE "2000",
                           style)])
    \o <<"</w:tr>">>

generateTable(headers, rows, style) ==
    LET widths == [i \in 1..Len(headers) |-> WidthOrDefault(headers[i].width)]
        gridCols == [i \in 1..Len(headers) |-> GridCol(WidthOrDefault(headers[i].width))]
        headerRow == generateTableHeaderRow(headers, style)
        dataRows == Flatten([r \in 1..Len(rows) |->
                               generateTableDataRow(rows[r], widths, style)])
    IN  <<"<w:tbl>", "<w:tblPr>", "<w:tblStyle w:val=\"TableGrid\" />",
          "<w:tblW w:w=\"5000\" w:type=\"pct\" />", Jc("center"), "<w:tblBorders>">>
        \o [e \in 1..Len(BorderEdges) |->
              Border(BorderEdges[e], "4", Prop(style, "borderColor"))]
        \o <<"</w:tblBorders>", "<w:tblLayout w:type=\"fixed\" />", "</w:tblPr>",
             "<w:tblGrid>">>
        \o gridCols
        \o <<"</w:tblGrid>">> \o headerRow \o dataRows \o <<"</w:tbl>">>

(***************************************************************************)
(* Image markup generator and image preparation (utils/constants.ts,       *)
(* utils/image.ts)                                                         *)
(***************************************************************************)

\* the characters of a sequence as one string
RECURSIVE Str(_)
Str(chars) == IF chars = <<>> THEN "" ELSE Head(chars) \o Str(Tail(chars))

\* a JavaScript value that is falsy: the missing property, the empty string, 0
Falsy(v) == v \in {"", "0"}

generateImageRelationship(imageId, imageName) ==
    "<Relationship Id=\"" \o imageId
    \o "\" Type=\"http://schemas.openxmlformats.org/officeDocument/2006/relationships/image\""
    \o " Target=\"media/" \o imageName \o "\" />"

WpExtent(w, h) == "<wp:extent cx=\"" \o w \o "\" cy=\"" \o h \o "\" />"
DocPr(name) == "<wp:docPr id=\"1\" name=\"" \o name \o "\" />"
PicCNvPr(name) == "<pic:cNvPr id=\"1\" name=\"" \o name \o "\" />"
Blip(imageId) == "<a:blip r:embed=\"" \o imageId \o "\" cstate=\"print\" />"
AExt(w, h) == "<a:ext cx=\"" \o w \o "\" cy=\"" \o h \o "\" />"

generateInlineImage(imageId, width, height, name) ==
    <<"<w:drawing>", "<wp:inline distT=\"0\" distB=\"0\" distL=\"0\" distR=\"0\">",
      WpExtent(width, height), DocPr(name), "<pic:pic>", PicCNvPr(name), Blip(imageId),
      AExt(width, height), "</pic:pic>", "</wp:inline>", "</w:drawing>">>

\* path.extname: from the last "." of the last path segment, "" when there is none
\* or the segment begins with it
extname(path) ==
    LET slashes == { n \in DOMAIN path : path[n] = "/" }
        start == IF slashes = {} THEN 1
                 ELSE (CHOOSE n \in slashes : \A m \in slashes : m <= n) + 1
        dots == { n \in start..Len(path) : path[n] = "." }
        last == IF dots = {} THEN 0 ELSE CHOOSE n \in dots : \A m \in dots : m <= n
    IN  IF last = 0 \/ last = start THEN <<>> ELSE SubSeq(path, last, Len(path))

toLowerCase(chars) == [n \in DOMAIN chars |-> ToLower(chars[n])]

\* str.replace('.', ''): the first "." only
RemoveFirstDot(chars) ==
    LET at == Least({ n \in DOMAIN chars : chars[n] = "." })
    IN  IF at = 0 THEN chars
        ELSE SubSeq(chars, 1, at - 1) \o SubSeq(chars, at + 1, Len(chars))

ExtensionOf(path) ==
    LET e == RemoveFirstDot(toLowerCase(extname(path)))
    IN  IF e = <<>> THEN "png" ELSE Str(e)

\* config.path, and config.url (its pathname), are sequences of characters,
\* <<>> when the property is not set
getImageExtension(config) ==
    IF config.path # <<>> THEN ExtensionOf(config.path)
    ELSE IF config.url # <<>> THEN ExtensionOf(config.url)
    ELSE "png"

\* a getImageBuffer that looks at path before buffer
ImageSourcePathFirst(config) ==
    IF config.path # <<>> THEN "path"
    ELSE IF config.buffer # "" THEN "buffer"
    ELSE IF config.url # <<>> THEN "url"
    ELSE "none"

\* the source getImageBuffer reads: buffer, then path, then url
ImageSource(config) ==
    IF config.buffer # "" THEN "buffer"
    ELSE IF config.path # <<>> THEN "path"
    ELSE IF config.url # <<>> THEN "url"
    ELSE "none"

\* the bytes getImageBuffer returns when its source can be read
ImageBytes(config) ==
    CASE ImageSource(config) = "buffer" -> config.buffer
      [] ImageSource(config) = "path" -> "file:" \o Str(config.path)
      [] ImageSource(config) = "url" -> "url:" \o Str(config.url)
      [] OTHER -> ""

\* the sources getImageBuffer loads bytes from: loadImageFromPath reads the file,
\* downloadImage fetches the url, a buffer is returned as it is
SourcesLoaded(config) == { ImageSource(config) } \cap { "path", "url" }

generateImageFileName(index, extension) ==
    "image" \o ToString(index + 1) \o "." \o extension

\* the ids generateImageId can return: rId, two capitals, four digits
RandomIds == { "rIdAB1234", "rIdCD5678" }

\* a fallback that does not count
FallbackIdNoCounter(index, counter) == "rId" \o ToString(100 + index)

FallbackId(index, counter) == "rId" \o ToString(100 + index + counter)

\* an id assignment that gives up after the first fallback
UniqueIdOneRetry(id, index, counter, existingIds) ==
    IF id \in Range(existingIds) THEN FallbackId(index, counter) ELSE id

\* let counter = 1; while (existingIds.includes(id)) { id = `rId${100 + index + counter}`; counter++ }
RECURSIVE UniqueId(_, _, _, _)
UniqueId(id, index, counter, existingIds) ==
    IF id \in Range(existingIds)
    THEN UniqueId(FallbackId(index, counter), index, counter + 1, existingIds)
    ELSE id

\* prepareImage once the bytes are there; candidate is what generateImageId returns
prepareImage(config, index, existingIds, candidate) ==
    LET extension == getImageExtension(config)
        fileName == generateImageFileName(index, extension)
        id == UniqueId(IF config.id # "" THEN config.id ELSE candidate, index, 1,
                       existingIds)
        width == IF Falsy(config.width) THEN "914400" ELSE config.width
        height == IF ~Falsy(config.height) THEN config.height
                  ELSE IF ~Falsy(config.width) THEN config.width ELSE "914400"
    IN  [ id |-> id,
          buffer |-> ImageBytes(config),
          fileName |-> fileName,
          extension |-> extension,
          relationshipXml |-> generateImageRelationship(id, fileName),
          inlineXml |-> generateInlineImage(id, width, height,
                                            "Image " \o ToString(index + 1)),
          placeholder |-> config.placeholder ]

(***************************************************************************)
(* Registry helpers (utils/xml.ts)                                         *)
(***************************************************************************)

RelsClose == "</Relationships>"
TypesClose == "</Types>"

\* a relationship of the template that is no image
TemplateRelationship(id, target) ==
    "<Relationship Id=\"" \o id \o "\" Type=\"" \o target \o "\" Target=\"" \o target
    \o ".xml\"/>"

\* an addRelationship that puts the new element after the closing tag
addRelationshipAtEnd(relsContent, relationshipXml) ==
    relsContent \o <<relationshipXml, "\n">>

addRelationship(relsContent, relationshipXml) ==
    replaceAll(relsContent, <<RelsClose>>, <<relationshipXml, "\n", RelsClose>>)

IMAGE_CONTENT_TYPES ==
    [ png |-> "image/png", jpg |-> "image/jpeg", jpeg |-> "image/jpeg",
      gif |-> "image/gif", bmp |-> "image/bmp", webp |-> "image/webp" ]

getImageContentType(extension) ==
    IF extension \in DOMAIN IMAGE_CONTENT_TYPES THEN IMAGE_CONTENT_TYPES[extension]
    ELSE "image/png"

\* a Default declaration as addContentType writes it, and as a template holds it
DefaultDeclaration(extension, contentType) ==
    "<Default Extension=\"" \o extension \o "\" ContentType=\"" \o contentType \o "\" />"
TemplateDeclaration(extension, contentType) ==
    "<Default Extension=\"" \o extension \o "\" ContentType=\"" \o contentType \o "\"/>"

KnownContentTypes ==
    Range(IMAGE_CONTENT_TYPES)
    \cup { "application/xml", "application/vnd.openxmlformats-package.relationships+xml" }

\* the extensions a declaration can name
KnownExtensions == DOMAIN IMAGE_CONTENT_TYPES \cup { "rels", "xml", "svg" }

\* each declaration, with the extension it names
DeclarationIndex ==
    { <<DefaultDeclaration(e, c), e>> : e \in KnownExtensions, c \in KnownContentTypes }
    \cup { <<TemplateDeclaration(e, c), e>> : e \in KnownExtensions, c \in KnownContentTypes }

\* the symbol holds the text Extension="<extension>"
DeclaresExtension(sym, extension) == <<sym, extension>> \in DeclarationIndex

\* a registration that does not look for the extension first
addContentTypeUnchecked(contentTypesXml, extension, contentType) ==
    replaceAll(contentTypesXml, <<TypesClose>>,
               <<DefaultDeclaration(extension, contentType), "\n", TypesClose>>)

addContentType(contentTypesXml, extension, contentType) ==
    IF \E n \in DOMAIN contentTypesXml : DeclaresExtension(contentTypesXml[n], extension)
    THEN contentTypesXml
    ELSE replaceAll(contentTypesXml, <<TypesClose>>,
                    <<DefaultDeclaration(extension, contentType), "\n", TypesClose>>)

(***************************************************************************)
(* DocxGenerator: the passes of generate() (index.ts)                      *)
(***************************************************************************)

MaxImages == 3
MaxTables == 1
MaxCalls == 2

DocumentPath == "word/document.xml"
RelsPath == "word/_rels/document.xml.rels"
ContentTypesPath == "[Content_Types].xml"
HeaderPath == "word/header1.xml"
FooterPath == "word/footer1.xml"
MediaPath(fileName) == "word/media/" \o fileName

\* the archive is a function from entry names to contents
HasEntry(z, name) == name \in DOMAIN z
addFile(z, name, content) ==
    [n \in DOMAIN z \cup {name} |-> IF n = name THEN content ELSE z[n]]
updateFile(z, name, content) == IF HasEntry(z, name) THEN addFile(z, name, content) ELSE z

\* the tags the pattern <w:p[^>]*> matches in the markup of the templates
WpLikeTags == { "<w:p>", "<w:p/>", "<w:pPr>" }
WPC == "</w:p>"

\* the end of the match of  <w:p[^>]*>(?:(?!</w:p>).)*?{{ph}}(?:(?!</w:p>).)*?</w:p>
\* (flag s) that starts at i, 0 if none: the first </w:p> after i, with the token
\* in between
ParagraphMatchEnd(str, i, ph) ==
    IF str[i] \notin WpLikeTags THEN 0
    ELSE LET e == IndexFrom(str, i + 1, WPC)
         IN  IF e > 0 /\ Includes(SubSeq(str, i + 1, e - 1), Braced(ph)) THEN e ELSE 0

\* result.replace(placeholderRegex, tableXml), flag g
RECURSIVE ReplaceParagraphsFrom(_, _, _, _)
ReplaceParagraphsFrom(str, i, ph, rep) ==
    LET at == Least({ n \in i..Len(str) : ParagraphMatchEnd(str, n, ph) > 0 })
        e == ParagraphMatchEnd(str, at, ph)
    IN  IF at = 0 THEN SubSeq(str, i, Len(str))
        ELSE SubSeq(str, i, at - 1)
             \o ExpandReplacement(rep, 1, SubSeq(str, at, e), SubSeq(str, 1, at - 1),
                                  SubSeq(str, e + 1, Len(str)))
             \o ReplaceParagraphsFrom(str, e + 1, ph, rep)

\* one iteration of the loop of processTables
processTable(result, table) ==
    LET headers == [i \in DOMAIN table.headers |->
                      [name |-> table.headers[i].name, width |-> table.headers[i].width]]
        style == Spread(DEFAULT_TABLE_STYLE, table.style)
        tableXml == generateTable(headers, table.rows, style)
    IN  IF \E n \in DOMAIN result : ParagraphMatchEnd(result, n, table.placeholder) > 0
        THEN ReplaceParagraphsFrom(result, 1, table.placeholder, tableXml)
        ELSE replaceAll(replaceAll(result, Braced(table.placeholder), tableXml),
                        table.placeholder, tableXml)

RECURSIVE processTables(_, _)
processTables(content, tbls) ==
    IF tbls = <<>> THEN content
    ELSE processTables(processTable(content, Head(tbls)), Tail(tbls))

RECURSIVE replaceImagePlaceholders(_, _)
replaceImagePlaceholders(content, prepared) ==
    IF prepared = <<>> THEN content
    ELSE LET image == Head(prepared)
             r1 == replaceAll(content, image.placeholder, image.inlineXml)
             r2 == replaceAll(r1, Braced(image.placeholder), image.inlineXml)
         IN  replaceImagePlaceholders(r2, Tail(prepared))

\* a setter that assigns the object it is given
AssignEntries(a, b) == b

\* { ...a, ...b } as entries: the keys of a in their order, then the new keys of b
MergeEntries(a, b) ==
    LET over(k) == \E j \in DOMAIN b : b[j].k = k
        last(k) == b[CHOOSE j \in DOMAIN b :
                        b[j].k = k /\ \A m \in DOMAIN b : b[m].k = k => m <= j].v
        kept == [i \in DOMAIN a |->
                   [k |-> a[i].k, v |-> IF over(a[i].k) THEN last(a[i].k) ELSE a[i].v]]
        new(j) == /\ \A i \in DOMAIN a : a[i].k # b[j].k
                  /\ \A m \in DOMAIN b : b[m].k = b[j].k => m >= j
    IN  kept \o [n \in 1..Cardinality({ j \in DOMAIN b : new(j) }) |->
                   LET j == CHOOSE j \in DOMAIN b :
                                new(j) /\ Cardinality({ m \in 1..j : new(m) }) = n
                   IN  [k |-> b[j].k, v |-> last(b[j].k)]]

\* the relationship ids and targets the archives here can hold
TemplateTargets == { "styles", "settings", "theme" }
KnownIds ==
    { "rId1", "rId2" } \cup RandomIds
    \cup { "rId" \o ToString(n) : n \in 100..(104 + 2 * MaxImages) }
KnownFileNames ==
    { generateImageFileName(i, e) : i \in 0..(MaxImages - 1), e \in KnownExtensions }
RelationshipIndex ==
    { <<generateImageRelationship(id, f), id>> : id \in KnownIds, f \in KnownFileNames }
    \cup { <<TemplateRelationship(id, t), id>> : id \in KnownIds, t \in TemplateTargets }

IdTable ==
    [ sym \in { p[1] : p \in RelationshipIndex } |->
        (CHOOSE p \in RelationshipIndex : p[1] = sym)[2] ]

\* the id the pattern /Id="([^"]+)"/ finds in a symbol, "" when it finds none
IdOf(sym) == IF sym \in DOMAIN IdTable THEN IdTable[sym] ELSE ""

extractRelationshipIds(relsContent) ==
    SelectSeq([n \in DOMAIN relsContent |-> IdOf(relsContent[n])], LAMBDA id : id # "")

RECURSIVE AddRelationships(_, _)
AddRelationships(relsContent, prepared) ==
    IF prepared = <<>> THEN relsContent
    ELSE AddRelationships(addRelationship(relsContent, Head(prepared).relationshipXml),
                          Tail(prepared))

\* new Set(images.map(img => img.extension)), in insertion order
RECURSIVE Distinct(_)
Distinct(seq) ==
    IF seq = <<>> THEN <<>>
    ELSE LET front == Distinct(SubSeq(seq, 1, Len(seq) - 1))
             x == seq[Len(seq)]
         IN  IF x \in Range(front) THEN front ELSE Append(front, x)

RECURSIVE AddContentTypes(_, _)
AddContentTypes(contentTypesXml, extensions) ==
    IF extensions = <<>> THEN contentTypesXml
    ELSE AddContentTypes(addContentType(contentTypesXml, Head(extensions),
                                        getImageContentType(Head(extensions))),
                         Tail(extensions))

updateRelationships(z, prepared) ==
    IF prepared = <<>> THEN z
    ELSE LET z1 == IF HasEntry(z, RelsPath)
                   THEN updateFile(z, RelsPath, AddRelationships(z[RelsPath], prepared))
                   ELSE z
             extensions == Distinct([i \in DOMAIN prepared |-> prepared[i].extension])
         IN  IF HasEntry(z1, ContentTypesPath)
             THEN updateFile(z1, ContentTypesPath,
                             AddContentTypes(z1[ContentTypesPath], extensions))
             ELSE z1

RECURSIVE addImageFiles(_, _)
addImageFiles(z, prepared) ==
    IF prepared = <<>> THEN z
    ELSE addImageFiles(addFile(z, MediaPath(Head(prepared).fileName),
                               <<Head(prepared).buffer>>),
                       Tail(prepared))

\* the part of generate() after the images are prepared, which runs without a pause
ProcessDocument(z, d, tbls, prepared) ==
    IF HasEntry(z, DocumentPath)
    THEN updateFile(z, DocumentPath,
                    replaceImagePlaceholders(
                        processTables(processPlaceholders(z[DocumentPath], d), tbls),
                        prepared))
    ELSE z

\* the entries whose name matches /word\/header\d+\.xml/, /word\/footer\d+\.xml/
ProcessPart(z, name, entries, prepared) ==
    IF HasEntry(z, name)
    THEN updateFile(z, name,
                    replaceImagePlaceholders(processPlaceholders(z[name], entries),
                                             prepared))
    ELSE z

\* the pass of generate() in which processPlaceholders throws, "none" if none does
FailingPass(z, d, hd, fd) ==
    IF HasEntry(z, DocumentPath) /\ PlaceholdersThrow(d) THEN "document"
    ELSE IF HasEntry(z, HeaderPath) /\ PlaceholdersThrow(MergeEntries(d, hd)) THEN "header"
    ELSE IF HasEntry(z, FooterPath) /\ PlaceholdersThrow(MergeEntries(d, fd)) THEN "footer"
    ELSE "none"

\* the archive as generate() leaves it when a pass throws: the parts before that
\* pass are updated already
ArchiveAtFailure(z, d, hd, fd, tbls, prepared) ==
    LET pass == FailingPass(z, d, hd, fd)
        z1 == ProcessDocument(z, d, tbls, prepared)
    IN  IF pass = "header" THEN z1
        ELSE IF pass = "footer"
        THEN ProcessPart(z1, HeaderPath, MergeEntries(d, hd), prepared)
        ELSE z

GenerateArchive(z, d, hd, fd, tbls, prepared) ==
    LET z1 == ProcessDocument(z, d, tbls, prepared)
        z2 == ProcessPart(z1, HeaderPath, MergeEntries(d, hd), prepared)
        z3 == ProcessPart(z2, FooterPath, MergeEntries(d, fd), prepared)
    IN  IF prepared # <<>> THEN addImageFiles(updateRelationships(z3, prepared), prepared)
        ELSE z3

(***************************************************************************)
(* The codec harness: a string drawn from CodecInputs is encoded once and  *)
(* then decoded or repaired.                                               *)
(***************************************************************************)

MaxPieces == 4
MaxOps == 3

Pieces == { <<"&">>, Tail(AMP), Tail(LT), <<"<">>, <<"a">>, <<"'">> }

RECURSIVE PieceStrings(_)
PieceStrings(n) ==
    IF n = 0 THEN { <<>> }
    ELSE LET shorter == PieceStrings(n - 1)
         IN  shorter \cup { p \o q : p \in shorter, q \in Pieces }

CodecInputs == PieceStrings(MaxPieces)

NoGenerator ==
    /\ templateLoaded = FALSE
    /\ zip = <<>>
    /\ data = <<>>
    /\ headerData = <<>>
    /\ footerData = <<>>
    /\ images = <<>>
    /\ tables = <<>>
    /\ calls = <<>>

Current == IF trail = <<>> THEN input ELSE trail[Len(trail)].out
Ops == [i \in 1..Len(trail) |-> trail[i].op]

CodecInit ==
    /\ input \in CodecInputs
    /\ trail = <<>>
    /\ NoGenerator

Encode ==
    /\ trail = <<>>
    /\ trail' = Append(trail, [op |-> "encode", out |-> escapeForXml(Current)])
    /\ UNCHANGED <<input, genVars>>

Decode ==
    /\ Len(trail) < MaxOps
    /\ trail' = Append(trail, [op |-> "decode", out |-> unescapeXml(Current)])
    /\ UNCHANGED <<input, genVars>>

Repair ==
    /\ Len(trail) < MaxOps
    /\ trail' = Append(trail, [op |-> "repair", out |-> fixDoubleEscaping(Current)])
    /\ UNCHANGED <<input, genVars>>

CodecNext == Encode \/ Decode \/ Repair

SpecCodec == CodecInit /\ [][CodecNext]_vars

\* C1: for every string s, decode(encode(s)) = s
C1_RoundTrip ==
    Ops = <<"encode", "decode">> => trail[2].out = input

\* C3 (as claimed): for every s that is the output of encode,
\* repair(repair(s)) = repair(s)
C3_RepairIdempotentOnEncoded ==
    Ops = <<"encode", "repair", "repair">> => trail[3].out = trail[2].out

\* C3 (amended): for every s = encode(t) where t holds no "&amp;amp;",
\* repair(repair(s)) = repair(s)
C3_RepairIdempotentNoDoubleAmp ==
    (Ops = <<"encode", "repair", "repair">> /\ ~Includes(input, AMP \o Tail(AMP)))
        => trail[3].out = trail[2].out

C3_Witness ==
    /\ Ops = <<"encode", "repair", "repair">>
    /\ Includes(input, AMP)
    /\ ~Includes(input, AMP \o Tail(AMP))
    /\ trail[2].out # trail[1].out
    /\ trail[3].out = trail[2].out

(***************************************************************************)
(* The substitution harness: markup holding the token {{x}} once, and a   *)
(* value drawn from ValueInputs.                                           *)
(***************************************************************************)

MaxValuePieces == 2

ValuePieces == { <<"$">>, <<"&">>, <<"a">>, <<"<">>, Tail(LT), <<"x">>, <<"'">> }

RECURSIVE ValueStrings(_)
ValueStrings(n) ==
    IF n = 0 THEN { <<>> }
    ELSE LET shorter == ValueStrings(n - 1)
         IN  shorter \cup { p \o q : p \in shorter, q \in ValuePieces }

ValueInputs == ValueStrings(MaxValuePieces)

KeyX == <<"x">>

MarkupInputs ==
    { Braced(KeyX),
      <<"H", "i", " ">> \o Braced(KeyX) \o <<"!">>,
      <<"<w:p>", "<w:r>", WT>> \o Braced(KeyX) \o <<WTC, "</w:r>", "</w:p>">>,
      <<"<w:p>", "<w:r>", WTP, "a", " ">> \o Braced(KeyX) \o <<WTC, "</w:r>", "</w:p>">> }

SubstInit ==
    /\ input \in [m : MarkupInputs, x : {KeyX}, v : ValueInputs]
    /\ trail = <<>>
    /\ NoGenerator

ReplacePlaceholder ==
    /\ trail = <<>>
    /\ trail' = <<[op |-> "replacePlaceholder",
                   out |-> replacePlaceholder(input.m, input.x, input.v)]>>
    /\ UNCHANGED <<input, genVars>>

ProcessPlaceholders ==
    /\ trail = <<>>
    /\ trail' = <<[op |-> "processPlaceholders",
                   out |-> processPlaceholders(input.m, <<[k |-> input.x, v |-> input.v]>>)]>>
    /\ UNCHANGED <<input, genVars>>

SubstNext == ReplacePlaceholder \/ ProcessPlaceholders

SpecSubst == SubstInit /\ [][SubstNext]_vars

\* C2: for markup m holding {{x}} exactly once and every value v, the result of
\* substituting x by v (replacePlaceholder, processPlaceholders with {x: v})
\* contains encode(v) and no literal {{x}}
C2_SubstituteInsertsEncoded ==
    trail # <<>> =>
        /\ Includes(trail[1].out, escapeForXml(input.v))
        /\ ~Includes(trail[1].out, Braced(input.x))

(***************************************************************************)
(* The table harness: generateTable applied to 1..MaxCols columns, up to   *)
(* MaxRows rows of 0..MaxCells cells, and a style that is absent or is     *)
(* DEFAULT_TABLE_STYLE with some fields overridden.                        *)
(***************************************************************************)

MaxCols == 2
MaxCells == 3
MaxRows == 2

StyleFields ==
    { "headerBgColor", "headerTextColor", "borderColor", "fontSize", "fontFamily",
      "headerHeight", "rowHeight", "tableAlign", "cellPadding", "borderSize" }

\* the defaults the TableStyle interface and the README document
DocumentedDefault ==
    [ headerBgColor |-> "C9DAF8", headerTextColor |-> "000000", borderColor |-> "auto",
      fontSize |-> "24", fontFamily |-> "Times New Roman", headerHeight |-> "400",
      rowHeight |-> "350", tableAlign |-> "center", cellPadding |-> "100",
      borderSize |-> "4" ]

OverrideValue ==
    [ headerBgColor |-> "FF0000", headerTextColor |-> "FFFFFF", borderColor |-> "333333",
      fontSize |-> "22", fontFamily |-> "Arial", headerHeight |-> "600",
      rowHeight |-> "500", tableAlign |-> "left", cellPadding |-> "200",
      borderSize |-> "8" ]

StyleOverrides ==
    { (f :> OverrideValue[f]) : f \in StyleFields }
    \cup { [f \in {"headerHeight", "rowHeight"} |-> OverrideValue[f]], OverrideValue }

\* the style argument: <<>> when it is not passed, <<style>> when it is
StyleInputs == { <<>> } \cup { <<Spread(DEFAULT_TABLE_STYLE, o)>> : o \in StyleOverrides }

CellText(i) == IF i = 2 THEN <<"&">> ELSE <<"c", Digits[i + 1]>>
RowOf(k) == [i \in 1..k |-> CellText(i)]
HeadersOf(n) ==
    [i \in 1..n |-> [name |-> <<"H", Digits[i + 1]>>,
                     width |-> IF i = 1 THEN "1000" ELSE ""]]

RECURSIVE RowLists(_)
RowLists(n) ==
    IF n = 0 THEN { <<>> }
    ELSE LET shorter == RowLists(n - 1)
         IN  shorter \cup { Append(rs, RowOf(k)) : rs \in shorter, k \in 0..MaxCells }

TableInit ==
    /\ input \in [headers : { HeadersOf(n) : n \in 1..MaxCols },
                  rows : RowLists(MaxRows),
                  style : StyleInputs]
    /\ trail = <<>>
    /\ NoGenerator

GenerateTable ==
    /\ trail = <<>>
    /\ trail' = <<[op |-> "generateTable",
                   out |-> generateTable(input.headers, input.rows,
                              IF input.style = <<>> THEN DEFAULT_TABLE_STYLE
                              ELSE input.style[1])]>>
    /\ UNCHANGED <<input, genVars>>

TableNext == GenerateTable

SpecTable == TableInit /\ [][TableNext]_vars

\* reading the generated markup back
\* the segments of xml between each open tag and the next close tag
RECURSIVE Segments(_, _, _, _)
Segments(xml, i, open, close) ==
    LET b == IndexFrom(xml, i, open)
        e == IF b = 0 THEN 0 ELSE IndexFrom(xml, b + 1, close)
    IN  IF b = 0 \/ e = 0 THEN <<>>
        ELSE <<SubSeq(xml, b, e)>> \o Segments(xml, e + 1, open, close)

TableRows(xml) == Segments(xml, 1, "<w:tr>", "</w:tr>")
HeaderRowOf(xml) == TableRows(xml)[1]
DataRowsOf(xml) == Tail(TableRows(xml))
\* the text of each cell of a row
CellTextsOf(row) ==
    LET runs == Segments(row, 1, WT, WTC)
    IN  [i \in 1..Len(runs) |-> SubSeq(runs[i], 2, Len(runs[i]) - 1)]

ColorValues == { "auto", "333333", "undefined" }
SizeValues == { "4", "8", "undefined" }
MarginSides == { "top", "left", "bottom", "right" }

\* the style field f shows in the table markup with the value v
FieldAppears(xml, f, v) ==
    CASE f = "headerHeight" -> Has(HeaderRowOf(xml), TrHeight(v))
      [] f = "rowHeight" ->
            \A r \in DOMAIN DataRowsOf(xml) : Has(DataRowsOf(xml)[r], TrHeight(v))
      [] f = "tableAlign" ->
            Has(Segments(xml, 1, "<w:tblPr>", "</w:tblPr>")[1], Jc(v))
      [] f = "borderSize" ->
            \A e \in DOMAIN BorderEdges :
                \E c \in ColorValues : Has(xml, Border(BorderEdges[e], v, c))
      [] f = "borderColor" ->
            \A e \in DOMAIN BorderEdges :
                \E z \in SizeValues : Has(xml, Border(BorderEdges[e], z, v))
      [] f = "cellPadding" -> \A side \in MarginSides : Has(xml, CellMargin(side, v))
      [] f = "headerBgColor" -> Has(HeaderRowOf(xml), Shd(v))
      [] f = "headerTextColor" -> Has(HeaderRowOf(xml), Color(v))
      [] f = "fontSize" -> Has(xml, Sz(v)) /\ Has(xml, SzCs(v))
      [] f = "fontFamily" -> Has(xml, RFonts(v))

\* the fields of a passed style that differ from the documented defaults
Overridden(style) ==
    { f \in StyleFields : f \in DOMAIN style /\ style[f] # DocumentedDefault[f] }

\* C5: with no style the header row height is 400, the data row heights are 350,
\* the alignment is center and the border size is 4; with exactly one field
\* overridden every other style field appears with its documented default
C5_DefaultsAppear ==
    trail # <<>> =>
        LET xml == trail[1].out
        IN  /\ input.style = <<>> =>
                 \A f \in {"headerHeight", "rowHeight", "tableAlign", "borderSize"} :
                     FieldAppears(xml, f, DocumentedDefault[f])
            /\ (input.style # <<>> /\ Cardinality(Overridden(input.style[1])) = 1) =>
                 \A f \in StyleFields \ Overridden(input.style[1]) :
                     FieldAppears(xml, f, DocumentedDefault[f])

\* C6: every style field passed to generateTable is interpolated as-is: header row
\* height, data row height, table alignment, the size of all six border edges and
\* the cell margins (default 100)
C6_StyleInterpolated ==
    (trail # <<>> /\ input.style # <<>>) =>
        \A f \in {"headerHeight", "rowHeight", "tableAlign", "borderSize", "cellPadding"} :
            FieldAppears(trail[1].out, f,
                         IF f \in DOMAIN input.style[1] THEN input.style[1][f]
                         ELSE DocumentedDefault[f])

\* C7: a row holding k < N cells of a table with N columns is rendered as a data
\* row of exactly k cells, with no padding cell
C7_ShortRowNotPadded ==
    trail # <<>> =>
        \A r \in DOMAIN input.rows :
            Len(input.rows[r]) < Len(input.headers) =>
                /\ CountSym(DataRowsOf(trail[1].out)[r], "<w:tc>") = Len(input.rows[r])
                /\ CellTextsOf(DataRowsOf(trail[1].out)[r])
                     = [i \in 1..Len(input.rows[r]) |-> escapeXml(input.rows[r][i])]

C7_Witness ==
    /\ trail # <<>>
    /\ Len(input.headers) = 2
    /\ \E r \in DOMAIN input.rows :
          /\ Len(input.rows[r]) = 1
          /\ CountSym(DataRowsOf(trail[1].out)[r], "<w:tc>") = 1

\* C8: a row holding more than N cells of a table with N columns is rendered as a
\* data row of exactly N cells, holding the first N values
C8_LongRowTruncated ==
    trail # <<>> =>
        \A r \in DOMAIN input.rows :
            Len(input.rows[r]) > Len(input.headers) =>
                /\ CountSym(DataRowsOf(trail[1].out)[r], "<w:tc>") = Len(input.headers)
                /\ CellTextsOf(DataRowsOf(trail[1].out)[r])
                     = [i \in 1..Len(input.headers) |-> escapeXml(input.rows[r][i])]

(***************************************************************************)
(* DocxGenerator as a state machine (index.ts).  The callers configure the *)
(* generator and then call generate(); generate() pauses at each await, so *)
(* calls that overlap interleave there.                                    *)
(***************************************************************************)

KeyTitle == <<"t", "i", "t", "l", "e">>
KeyItemsTable == <<"i", "t", "e", "m", "s", "T", "a", "b", "l", "e">>
KeyLogo == <<"l", "o", "g", "o">>

Paragraph(text) == <<"<w:p>", "<w:r>", WT>> \o text \o <<WTC, "</w:r>", "</w:p>">>

\* each token in a paragraph of its own, as in the template of e2e-test/run-test.js
BodySeparate ==
    <<"<w:body>">> \o Paragraph(Braced(KeyTitle)) \o Paragraph(Braced(KeyItemsTable))
    \o Paragraph(Braced(KeyLogo)) \o <<"<w:sectPr/>", "</w:body>">>

\* the title and the table token in one paragraph
BodyShared ==
    <<"<w:body>">>
    \o Paragraph(Braced(KeyTitle) \o <<":", " ">> \o Braced(KeyItemsTable))
    \o Paragraph(Braced(KeyLogo)) \o <<"<w:sectPr/>", "</w:body>">>

TemplatePlain ==
    [ n \in { DocumentPath, RelsPath, ContentTypesPath } |->
        CASE n = DocumentPath -> BodySeparate
          [] n = RelsPath ->
               <<"<Relationships>", TemplateRelationship("rId1", "styles"), RelsClose>>
          [] n = ContentTypesPath ->
               <<"<Types>",
                 TemplateDeclaration("rels",
                     "application/vnd.openxmlformats-package.relationships+xml"),
                 TemplateDeclaration("xml", "application/xml"), TypesClose>> ]

\* a template that already holds an image, a header and a footer
TemplateRich ==
    [ n \in { DocumentPath, RelsPath, ContentTypesPath, HeaderPath, FooterPath,
              MediaPath("image1.png") } |->
        CASE n = DocumentPath -> BodyShared
          [] n = RelsPath ->
               <<"<Relationships>", TemplateRelationship("rId1", "styles"),
                 generateImageRelationship("rId101", "image1.png"), RelsClose>>
          [] n = ContentTypesPath ->
               <<"<Types>",
                 TemplateDeclaration("rels",
                     "application/vnd.openxmlformats-package.relationships+xml"),
                 TemplateDeclaration("xml", "application/xml"),
                 TemplateDeclaration("png", "image/png"), TypesClose>>
          [] n = HeaderPath -> <<"<w:hdr>">> \o Paragraph(Braced(KeyTitle)) \o <<"</w:hdr>">>
          [] n = FooterPath -> <<"<w:ftr>">> \o Paragraph(Braced(KeyTitle)) \o <<"</w:ftr>">>
          [] n = MediaPath("image1.png") -> <<"template-bytes">> ]

Templates == { TemplatePlain, TemplateRich }

TitleValues == { <<"Q", "1">>, <<"A", "&", "B">>, <<"$", "&">> }
KeyNote == <<"n", "o", "t", "e">>
KeySum == <<"a", "+", "b">>
DataInputs ==
    { <<[k |-> KeyTitle, v |-> v]>> : v \in TitleValues }
    \cup { <<[k |-> KeyNote, v |-> <<"N">>]>> }
HeaderInputs == { <<[k |-> KeyTitle, v |-> <<"H">>]>>, <<[k |-> KeySum, v |-> <<"3">>]>> }
FooterInputs == { <<[k |-> KeyTitle, v |-> <<"F">>]>>, <<[k |-> KeySum, v |-> <<"3">>]>> }

NoStyle == [f \in {} |-> ""]
ItemHeaders ==
    <<[name |-> <<"I", "t", "e", "m">>, key |-> "item", width |-> "3000"],
      [name |-> <<"P", "r", "i", "c", "e">>, key |-> "price", width |-> ""]>>
TableConfigs ==
    { [placeholder |-> KeyItemsTable, headers |-> ItemHeaders, rows |-> r, style |-> st] :
        r \in { <<<<<<"P", "e", "n">>, <<"$", "9">>>>>>,
                <<<<<<"I", "n", "k">>, <<"7">>>>, <<<<"C", "a", "p">>, <<"2">>>>>> },
        st \in { NoStyle } }

\* an image configuration: a property that is not set is "" or <<>>
NoImageProps ==
    [ placeholder |-> KeyLogo, buffer |-> "", path |-> <<>>, url |-> <<>>,
      width |-> "", height |-> "", id |-> "" ]
ImageConfigs ==
    { [NoImageProps EXCEPT !.buffer = "bytes-1"],
      [NoImageProps EXCEPT !.path = <<"i", "m", "g", "/", "a", ".", "J", "P", "G">>,
                           !.id = "rId1", !.width = "100"],
      [NoImageProps EXCEPT !.url = <<"/", "p", "/", "b", ".", "p", "n", "g">>,
                           !.id = "rId102", !.height = "50"],
      NoImageProps }

IdleCall ==
    [ pc |-> "idle", config |-> <<>>, existingIds |-> <<>>, prepared |-> <<>>,
      result |-> <<>>, error |-> "" ]

NoCallBegun == \A c \in DOMAIN calls : calls[c].pc = "idle"

\* new DocxGenerator()
Init ==
    /\ input = <<>>
    /\ trail = <<>>
    /\ templateLoaded = FALSE
    /\ zip = <<>>
    /\ data = <<>>
    /\ headerData = <<>>
    /\ footerData = <<>>
    /\ images = <<>>
    /\ tables = <<>>
    /\ calls = [c \in 1..MaxCalls |-> IdleCall]

LoadTemplate ==
    /\ NoCallBegun
    /\ \E t \in Templates : zip' = t
    /\ templateLoaded' = TRUE
    /\ UNCHANGED <<harnessVars, data, headerData, footerData, images, tables, calls>>

MaxFailedLoads == 1

\* the paths loadTemplate is given at which there is no file
MissingPaths == { "missing.docx" }

\* a loadTemplate that marks the template loaded before it looks for the file
LoadTemplateFailsLoaded ==
    /\ NoCallBegun
    /\ Len(trail) < MaxFailedLoads
    /\ \E source \in MissingPaths :
         trail' = Append(trail,
                     [op |-> "loadTemplate",
                      out |-> "Failed to load template: Template file not found: "
                              \o source])
    /\ templateLoaded' = TRUE
    /\ UNCHANGED <<input, zip, data, headerData, footerData, images, tables, calls>>

\* loadTemplate throws: there is no file at the path.  The error the caller gets is
\* kept in trail.
LoadTemplateFails ==
    /\ NoCallBegun
    /\ Len(trail) < MaxFailedLoads
    /\ \E source \in MissingPaths :
         trail' = Append(trail,
                     [op |-> "loadTemplate",
                      out |-> "Failed to load template: Template file not found: "
                              \o source])
    /\ UNCHANGED <<input, genVars>>

SetData ==
    /\ NoCallBegun
    /\ \E d \in DataInputs : data' = MergeEntries(data, d)
    /\ UNCHANGED <<harnessVars, templateLoaded, zip, headerData, footerData, images,
                   tables, calls>>

SetHeader ==
    /\ NoCallBegun
    /\ \E d \in HeaderInputs : headerData' = MergeEntries(headerData, d)
    /\ UNCHANGED <<harnessVars, templateLoaded, zip, data, footerData, images, tables,
                   calls>>

SetFooter ==
    /\ NoCallBegun
    /\ \E d \in FooterInputs : footerData' = MergeEntries(footerData, d)
    /\ UNCHANGED <<harnessVars, templateLoaded, zip, data, headerData, images, tables,
                   calls>>

SetImages ==
    /\ NoCallBegun
    /\ Len(images) < MaxImages
    /\ \E config \in ImageConfigs : images' = images \o <<config>>
    /\ UNCHANGED <<harnessVars, templateLoaded, zip, data, headerData, footerData,
                   tables, calls>>

AddTable ==
    /\ NoCallBegun
    /\ Len(tables) < MaxTables
    /\ \E config \in TableConfigs : tables' = Append(tables, config)
    /\ UNCHANGED <<harnessVars, templateLoaded, zip, data, headerData, footerData,
                   images, calls>>

\* a reset() that drops the template as well
ResetWithTemplate ==
    /\ data' = <<>>
    /\ headerData' = <<>>
    /\ footerData' = <<>>
    /\ images' = <<>>
    /\ tables' = <<>>
    /\ zip' = <<>>
    /\ templateLoaded' = FALSE
    /\ UNCHANGED <<harnessVars, calls>>

Reset ==
    /\ data' = <<>>
    /\ headerData' = <<>>
    /\ footerData' = <<>>
    /\ images' = <<>>
    /\ tables' = <<>>
    /\ UNCHANGED <<harnessVars, templateLoaded, zip, calls>>

\* generate() up to its first await: the check of the template, and processImages
\* up to its call of prepareImage for the first image
GenerateBegin ==
    \E c \in DOMAIN calls :
        /\ calls[c].pc = "idle"
        /\ c > 1 => calls[c - 1].pc # "idle"
        /\ calls' =
             [calls EXCEPT ![c] =
                IF ~templateLoaded
                THEN [@ EXCEPT !.pc = "failed",
                               !.error = "No template loaded. Call loadTemplate() first."]
                ELSE IF images = <<>>
                THEN [@ EXCEPT !.pc = "assemble"]
                ELSE [@ EXCEPT !.pc = "images",
                               !.config = <<images[1]>>,
                               !.existingIds =
                                   extractRelationshipIds(
                                       IF HasEntry(zip, RelsPath) THEN zip[RelsPath]
                                       ELSE <<>>)]]
        /\ UNCHANGED <<harnessVars, templateLoaded, zip, data, headerData, footerData,
                       images, tables>>

\* prepareImage resumes with the bytes, the image is pushed, and the loop goes on
\* to the next image or ends
PrepareImage ==
    \E c \in DOMAIN calls :
        /\ calls[c].pc = "images"
        /\ ImageSource(calls[c].config[1]) # "none"
        /\ \E candidate \in IF calls[c].config[1].id = "" THEN RandomIds ELSE { "" } :
             LET call == calls[c]
                 index == Len(call.prepared)
                 image == prepareImage(call.config[1], index,
                              call.existingIds
                              \o [i \in DOMAIN call.prepared |-> call.prepared[i].id],
                              candidate)
                 prepared == Append(call.prepared, image)
             IN  calls' =
                   [calls EXCEPT ![c] =
                      IF Len(prepared) < Len(images)
                      THEN [@ EXCEPT !.prepared = prepared,
                                     !.config = <<images[Len(prepared) + 1]>>]
                      ELSE [@ EXCEPT !.prepared = prepared, !.config = <<>>,
                                     !.pc = "assemble"]]
        /\ UNCHANGED <<harnessVars, templateLoaded, zip, data, headerData, footerData,
                       images, tables>>

\* getImageBuffer throws: the configuration names no source
PrepareImageFails ==
    \E c \in DOMAIN calls :
        /\ calls[c].pc = "images"
        /\ ImageSource(calls[c].config[1]) = "none"
        /\ calls' =
             [calls EXCEPT ![c] =
                [@ EXCEPT !.pc = "failed",
                          !.error = "Failed to generate document: No image source provided for placeholder: "
                                    \o Str(calls[c].config[1].placeholder)]]
        /\ UNCHANGED <<harnessVars, templateLoaded, zip, data, headerData, footerData,
                       images, tables>>

\* generate() after processImages: the three passes over each part, the registry
\* and the media files, and zip.toBuffer()
Assemble ==
    \E c \in DOMAIN calls :
        /\ calls[c].pc = "assemble"
        /\ FailingPass(zip, data, headerData, footerData) = "none"
        /\ zip' = GenerateArchive(zip, data, headerData, footerData, tables,
                                  calls[c].prepared)
        /\ calls' = [calls EXCEPT ![c] = [@ EXCEPT !.pc = "done", !.result = zip']]
        /\ UNCHANGED <<harnessVars, templateLoaded, data, headerData, footerData, images,
                       tables>>

\* generate() after processImages, when processPlaceholders throws in one of the
\* passes: the catch wraps the error, and the updates made so far stay
AssembleFails ==
    \E c \in DOMAIN calls :
        /\ calls[c].pc = "assemble"
        /\ FailingPass(zip, data, headerData, footerData) # "none"
        /\ zip' = ArchiveAtFailure(zip, data, headerData, footerData, tables,
                                   calls[c].prepared)
        /\ calls' =
             [calls EXCEPT ![c] =
                [@ EXCEPT !.pc = "failed",
                          !.error = "Failed to generate document: Invalid regular expression"]]
        /\ UNCHANGED <<harnessVars, templateLoaded, data, headerData, footerData, images,
                       tables>>

Next ==
    \/ LoadTemplate
    \/ LoadTemplateFails
    \/ SetData
    \/ SetHeader
    \/ SetFooter
    \/ SetImages
    \/ AddTable
    \/ Reset
    \/ GenerateBegin
    \/ PrepareImage
    \/ PrepareImageFails
    \/ Assemble
    \/ AssembleFails

Spec == Init /\ [][Next]_vars

\* a generate() call made when no other call is under way
GenerateInTurn ==
    /\ \A c \in DOMAIN calls : calls[c].pc \in {"idle", "done", "failed"}
    /\ GenerateBegin

\* the generator with images only, each generate() awaited before the next
ImagesNext ==
    \/ LoadTemplate
    \/ SetImages
    \/ GenerateInTurn
    \/ PrepareImage
    \/ PrepareImageFails
    \/ Assemble

SpecImages == Init /\ [][ImagesNext]_vars

\* the generator with data and tables only
TextNext ==
    \/ LoadTemplate
    \/ SetData
    \/ AddTable
    \/ GenerateBegin
    \/ Assemble

SpecText == Init /\ [][TextNext]_vars

\* C4: the ids a generate() call gives its images are pairwise distinct, and none
\* of them is an id the relationships part held when the call read it
C4_IdsDistinct ==
    \A c \in DOMAIN calls :
        LET p == calls[c].prepared
        IN  /\ \A i, j \in DOMAIN p : i # j => p[i].id # p[j].id
            /\ \A i \in DOMAIN p : p[i].id \notin Range(calls[c].existingIds)

\* a finished call with two images, one of which asked for an id that was taken
C4_Witness ==
    \E c \in DOMAIN calls :
        /\ calls[c].pc = "done"
        /\ Len(calls[c].prepared) >= 2
        /\ Len(images) = Len(calls[c].prepared)
        /\ \E i \in DOMAIN images :
             /\ images[i].id \in Range(calls[c].existingIds)
             /\ calls[c].prepared[i].id # images[i].id

DeclarationCount(contentTypesXml, extension) ==
    Cardinality({ n \in DOMAIN contentTypesXml :
                    DeclaresExtension(contentTypesXml[n], extension) })

\* C9: the content types part never holds two declarations of one extension, and
\* once a generate() call has registered its images it holds exactly one
\* declaration of the extension of each of them
C9_NoDuplicateExtension ==
    (templateLoaded /\ HasEntry(zip, ContentTypesPath)) =>
        /\ \A e \in KnownExtensions : DeclarationCount(zip[ContentTypesPath], e) <= 1
        /\ \A c \in DOMAIN calls :
             calls[c].pc = "done" =>
                 \A i \in DOMAIN calls[c].prepared :
                     DeclarationCount(zip[ContentTypesPath],
                                      calls[c].prepared[i].extension) = 1

\* a second generate() has finished with two images of one extension, which the
\* part declares once, in the form addContentType writes
C9_Witness ==
    /\ templateLoaded
    /\ HasEntry(zip, ContentTypesPath)
    /\ \E c \in DOMAIN calls :
         /\ c > 1
         /\ calls[c].pc = "done"
         /\ \E i, j \in DOMAIN calls[c].prepared :
              /\ i # j
              /\ calls[c].prepared[i].extension = calls[c].prepared[j].extension
              /\ Has(zip[ContentTypesPath],
                     DefaultDeclaration(calls[c].prepared[i].extension,
                         getImageContentType(calls[c].prepared[i].extension)))
              /\ DeclarationCount(zip[ContentTypesPath],
                                  calls[c].prepared[i].extension) = 1

TitleOf(entries) ==
    entries[CHOOSE i \in DOMAIN entries : entries[i].k = KeyTitle].v

\* C10: after loadTemplate, setData({title: v}), addTable for itemsTable and
\* generate(), the document part holds v, a <w:tbl>, every cell text of the table,
\* and no {{title}}
C10_EndToEnd ==
    ( /\ calls[1].pc = "done"
      /\ \A c \in 2..MaxCalls : calls[c].pc = "idle"
      /\ \E i \in DOMAIN data : data[i].k = KeyTitle
      /\ Len(tables) = 1 ) =>
        LET doc == calls[1].result[DocumentPath]
            table == tables[1]
        IN  /\ Includes(doc, escapeForXml(TitleOf(data)))
            /\ Has(doc, "<w:tbl>")
            /\ \A r \in DOMAIN table.rows : \A i \in DOMAIN table.rows[r] :
                 Includes(doc, escapeXml(table.rows[r][i]))
            /\ ~Includes(doc, Braced(KeyTitle))

\* the entries generate() rewrites
RewrittenEntries == { DocumentPath, HeaderPath, FooterPath, RelsPath, ContentTypesPath }

\* a step of a generate() call
GenerateStep == calls' # calls

\* C11: a step of generate() leaves every entry of the archive as it was, except
\* the document, header and footer parts and the two registries; a media entry
\* that is there is not overwritten by an added word/media/image<N>.<ext>
C11_OtherEntriesUnmodified ==
    [][GenerateStep =>
         \A n \in DOMAIN zip \ RewrittenEntries :
             n \in DOMAIN zip' /\ zip'[n] = zip[n]]_vars

\* the generator with loadTemplate calls that succeed and that fail
LoadNext ==
    \/ LoadTemplate
    \/ LoadTemplateFails
    \/ SetData
    \/ GenerateBegin
    \/ Assemble

SpecLoad == Init /\ [][LoadNext]_vars

\* C12: isTemplateLoaded() is false on a new generator; it changes only to true
\* and only in a loadTemplate that succeeds; a loadTemplate that fails raises
\* 'Template file not found' and leaves it as it was; a generate() called while it
\* is false fails with 'No template loaded' and yields no buffer
C12_TemplateLoadedFlag ==
    /\ ~templateLoaded
    /\ [][/\ templateLoaded' # templateLoaded =>
               (templateLoaded' /\ zip' \in Templates /\ trail' = trail)
          /\ trail' # trail =>
               /\ templateLoaded' = templateLoaded
               /\ zip' = zip
               /\ \E source \in MissingPaths :
                    trail'[Len(trail')].out
                      = "Failed to load template: Template file not found: " \o source
          /\ \A c \in DOMAIN calls :
               (calls[c].pc = "idle" /\ calls'[c].pc # "idle" /\ ~templateLoaded) =>
                   /\ calls'[c].pc = "failed"
                   /\ calls'[c].error = "No template loaded. Call loadTemplate() first."
                   /\ calls'[c].result = <<>>
                   /\ zip' = zip]_vars

\* a loadTemplate has failed, the template is not loaded, and a generate() has
\* failed for that
C12_Witness ==
    /\ trail # <<>>
    /\ ~templateLoaded
    /\ calls[1].pc = "failed"
    /\ calls[1].error = "No template loaded. Call loadTemplate() first."

\* the generator with the three placeholder sets and reset(), each generate()
\* awaited before the next
PartsNext ==
    \/ LoadTemplate
    \/ SetData
    \/ SetHeader
    \/ SetFooter
    \/ Reset
    \/ GenerateInTurn
    \/ Assemble
    \/ AssembleFails

SpecParts == Init /\ [][PartsNext]_vars

\* C13: a generate() call either ends with the buffer of the complete archive, or
\* fails and has rewritten no entry of the archive
C13_NoPartialOutput ==
    [][\A c \in DOMAIN calls :
         calls'[c].pc # calls[c].pc =>
            \/ calls'[c].pc \in {"images", "assemble"} /\ zip' = zip
            \/ calls'[c].pc = "done" /\ calls'[c].result = zip'
            \/ calls'[c].pc = "failed" /\ calls'[c].result = <<>> /\ zip' = zip]_vars

(***************************************************************************)
(* The image harness: prepareImage is applied once to a configuration, an  *)
(* index and a list of ids drawn from the sets below.                      *)
(***************************************************************************)

MaxIndex == 1

PrepareConfigs ==
    [ placeholder : { KeyLogo },
      buffer : { "", "bytes-1" },
      path : { <<>>, <<"i", "m", "g", "/", "a", ".", "J", "P", "G">> },
      url : { <<>>, <<"/", "p", "/", "b", ".", "p", "n", "g">> },
      width : { "", "0", "100" },
      height : { "", "0", "50" },
      id : { "", "rId1", "rId9" } ]

ExistingIdLists ==
    { <<>>, <<"rId1">>, <<"rId1", "rIdAB1234">>, <<"rId1", "rIdAB1234", "rId101">>,
      <<"rId1", "rId101", "rId102">> }

PrepareInit ==
    /\ input \in [config : PrepareConfigs, index : 0..MaxIndex,
                  existingIds : ExistingIdLists]
    /\ trail = <<>>
    /\ NoGenerator

\* prepareImage returns
PrepareImageReturns ==
    /\ trail = <<>>
    /\ ImageSource(input.config) # "none"
    /\ \E candidate \in IF input.config.id = "" THEN RandomIds ELSE { "" } :
         trail' = <<[op |-> "prepareImage",
                     out |-> prepareImage(input.config, input.index, input.existingIds,
                                          candidate),
                     candidate |-> candidate,
                     loaded |-> SourcesLoaded(input.config),
                     error |-> ""]>>
    /\ UNCHANGED <<input, genVars>>

\* prepareImage throws: getImageBuffer finds no source
PrepareImageThrows ==
    /\ trail = <<>>
    /\ ImageSource(input.config) = "none"
    /\ trail' = <<[op |-> "prepareImage", out |-> <<>>, candidate |-> "",
                   loaded |-> SourcesLoaded(input.config),
                   error |-> "No image source provided for placeholder: "
                             \o Str(input.config.placeholder)]>>
    /\ UNCHANGED <<input, genVars>>

PrepareNext == PrepareImageReturns \/ PrepareImageThrows

SpecPrepare == PrepareInit /\ [][PrepareNext]_vars

\* C14: the bytes of an image are those of its buffer when it has one, else those
\* of the file at its path when it has one, else those fetched from its url, and
\* no other source is loaded; with none of the three, prepareImage fails with
\* 'No image source provided'
C14_SourcePrecedence ==
    \A i \in DOMAIN trail :
        LET c == input.config
            r == trail[i]
        IN  /\ c.buffer # "" => r.out.buffer = c.buffer /\ r.loaded = {}
            /\ (c.buffer = "" /\ c.path # <<>>) =>
                   r.out.buffer = "file:" \o Str(c.path) /\ r.loaded = { "path" }
            /\ (c.buffer = "" /\ c.path = <<>> /\ c.url # <<>>) =>
                   r.out.buffer = "url:" \o Str(c.url) /\ r.loaded = { "url" }
            /\ (c.buffer = "" /\ c.path = <<>> /\ c.url = <<>>) =>
                   /\ r.out = <<>>
                   /\ r.loaded = {}
                   /\ r.error = "No image source provided for placeholder: logo"

\* an image with all three sources has been prepared from its buffer
C14_Witness ==
    /\ trail # <<>>
    /\ input.config.buffer # ""
    /\ input.config.path # <<>>
    /\ input.config.url # <<>>
    /\ trail[1].out.buffer = input.config.buffer
    /\ trail[1].loaded = {}

\* C15: the extent of the inline drawing is width x height as given when both
\* are set, width x width when the height is not set, and 914400 x 914400 when the
\* width is not set, whatever the height
C15_DimensionDefaults ==
    \A i \in DOMAIN trail :
        trail[i].error = "" =>
            LET c == input.config
                w == IF c.width = "" THEN "914400" ELSE c.width
                h == IF c.width = "" THEN "914400"
                     ELSE IF c.height = "" THEN c.width ELSE c.height
                xml == trail[i].out.inlineXml
            IN  /\ \E j \in DOMAIN xml : xml[j] = WpExtent(w, h)
                /\ \E j \in DOMAIN xml : xml[j] = AExt(w, h)

\* C17: the id of an image is the explicit id when there is one and it is not
\* among the existing ids; otherwise it is a random candidate when that is not
\* among them, and else the first rId<100 + index + counter>, counter = 1, 2, ...
\* that is not among them
C17_IdAssignment ==
    \A i \in DOMAIN trail :
        trail[i].error = "" =>
            LET c == input.config
                ids == { input.existingIds[j] : j \in DOMAIN input.existingIds }
                fallback(n) == "rId" \o ToString(100 + input.index + n)
                first == CHOOSE n \in 1..(Len(input.existingIds) + 1) :
                             /\ fallback(n) \notin ids
                             /\ \A m \in 1..(n - 1) : fallback(m) \in ids
                candidates == IF c.id = "" THEN { trail[i].candidate } ELSE RandomIds
            IN  IF c.id # "" /\ c.id \notin ids THEN trail[i].out.id = c.id
                ELSE \E r \in candidates :
                        trail[i].out.id = IF r \notin ids THEN r ELSE fallback(first)

(***************************************************************************)
(* The value harness: the codec is applied once to a JavaScript value of   *)
(* any type.  A value is a record of its type and its text.                *)
(***************************************************************************)

JsString(chars) == [type |-> "string", v |-> chars]

NonStrings ==
    { [type |-> "null", v |-> <<>>], [type |-> "undefined", v |-> <<>>],
      [type |-> "number", v |-> <<"0">>], [type |-> "number", v |-> <<"7">>],
      [type |-> "boolean", v |-> <<"true">>], [type |-> "object", v |-> <<>>] }

JsValues == NonStrings \cup { JsString(s) : s \in PieceStrings(MaxValuePieces) }

\* !value is false
Truthy(value) ==
    CASE value.type = "string" -> value.v # <<>>
      [] value.type = "number" -> value.v # <<"0">>
      [] value.type = "boolean" -> value.v = <<"true">>
      [] value.type = "object" -> TRUE
      [] OTHER -> FALSE

\* if (!text || typeof text !== 'string') return ''
escapeForXmlValue(text) ==
    IF ~Truthy(text) \/ text.type # "string" THEN JsString(<<>>)
    ELSE JsString(escapeForXml(text.v))

unescapeXmlValue(text) ==
    IF ~Truthy(text) \/ text.type # "string" THEN JsString(<<>>)
    ELSE JsString(unescapeXml(text.v))

\* if (typeof str !== 'string') return str
replaceAllValue(str, search, replacement) ==
    IF str.type # "string" THEN str ELSE JsString(replaceAll(str.v, search, replacement))

fixDoubleEscapingValue(content) ==
    LET r1 == replaceAllValue(content, AMP \o Tail(AMP), AMP)
        r2 == replaceAllValue(r1, AMP \o Tail(LT), LT)
        r3 == replaceAllValue(r2, AMP \o Tail(GT), GT)
        r4 == replaceAllValue(r3, AMP \o Tail(QUOT), QUOT)
    IN  replaceAllValue(r4, AMP \o Tail(APOS), APOS)

ValueInit ==
    /\ input \in JsValues
    /\ trail = <<>>
    /\ NoGenerator

EncodeValue ==
    /\ trail = <<>>
    /\ trail' = <<[op |-> "encode", out |-> escapeForXmlValue(input)]>>
    /\ UNCHANGED <<input, genVars>>

DecodeValue ==
    /\ trail = <<>>
    /\ trail' = <<[op |-> "decode", out |-> unescapeXmlValue(input)]>>
    /\ UNCHANGED <<input, genVars>>

RepairValue ==
    /\ trail = <<>>
    /\ trail' = <<[op |-> "repair", out |-> fixDoubleEscapingValue(input)]>>
    /\ UNCHANGED <<input, genVars>>

ValueNext == EncodeValue \/ DecodeValue \/ RepairValue

SpecValues == ValueInit /\ [][ValueNext]_vars

\* C16: encode, decode and repair each return the empty string for an input that
\* is null or not a string
C16_NonStringGivesEmpty ==
    \A i \in DOMAIN trail :
        input.type # "string" => trail[i].out = [type |-> "string", v |-> <<>>]

\* nothing is set: no placeholder data, no image, no table
NothingSet ==
    /\ data = <<>>
    /\ headerData = <<>>
    /\ footerData = <<>>
    /\ images = <<>>
    /\ tables = <<>>

\* C18: reset() empties the three placeholder sets and the image and table lists
\* and leaves isTemplateLoaded() and the entries of the archive as they were; a
\* generate() that runs with nothing set since the reset substitutes nothing
C18_ResetKeepsTemplate ==
    [][/\ Reset => /\ NothingSet'
                   /\ templateLoaded' = templateLoaded
                   /\ zip' = zip
                   /\ calls' = calls
       /\ \A c \in DOMAIN calls :
            (NothingSet /\ calls[c].pc = "assemble" /\ calls[c].prepared = <<>>
             /\ calls'[c].pc # "assemble") =>
                 /\ calls'[c].pc = "done"
                 /\ zip' = zip
                 /\ calls'[c].result = zip]_vars

\* a first generate() has substituted the title, reset() has then emptied the
\* sets, and a second generate() has returned the archive as the reset left it
C18_Witness ==
    /\ templateLoaded
    /\ NothingSet
    /\ calls[1].pc = "done"
    /\ ~Includes(calls[1].result[DocumentPath], Braced(KeyTitle))
    /\ calls[2].pc = "done"
    /\ calls[2].result = calls[1].result
    /\ zip = calls[1].result

(***************************************************************************)
(* The split-run harness: replacePlaceholder and processPlaceholders are   *)
(* applied to markup in which the token is split across two text runs.     *)
(***************************************************************************)

KeyPlaceholder == <<"p", "l", "a", "c", "e", "h", "o", "l", "d", "e", "r">>

\* the two runs of the comment at string.ts:43, bare, with run properties on the
\* second run, and with the braces around the token
SplitMarkups ==
    { <<"<w:p>", "<w:r>", WT, "p", "l", "a", "c", "e", WTC, "</w:r>",
        "<w:r>", rpr, wt, "h", "o", "l", "d", "e", "r", WTC, "</w:r>", "</w:p>">> :
        rpr \in { "<w:rPr/>" }, wt \in { WT, WTP } }
    \cup
    { <<"<w:p>", "<w:r>", WT, "p", "l", "a", "c", "e", WTC, "</w:r>",
        "<w:r>", WT, "h", "o", "l", "d", "e", "r", WTC, "</w:r>", "</w:p>">>,
      <<"<w:p>", "<w:r>", WT, "{", "{", "p", "l", "a", "c", "e", WTC, "</w:r>",
        "<w:r>", WT, "h", "o", "l", "d", "e", "r", "}", "}", WTC, "</w:r>", "</w:p>">> }

\* the token in one run, its characters set apart by characters that are not letters
SpacedMarkup ==
    <<"<w:p>", "<w:r>", WTP, " ", "P", "l", "a", "c", "e", "-", "h", "o", "l", "d", "e",
      "r", " ", WTC, "</w:r>", "</w:p>">>

\* a run that holds the name in another letter case, and a run that holds other text
CaseMarkup == Paragraph(<<"P", "L", "A", "C", "E", "H", "O", "L", "D", "E", "R">>)
OtherMarkup == Paragraph(<<"h", "o", "l", "d", "e", "r">>)
\* a run that holds the name and nothing else
BareMarkup == Paragraph(KeyPlaceholder)

SplitInit ==
    /\ input \in [m : SplitMarkups \cup { SpacedMarkup, CaseMarkup, OtherMarkup,
                                         BareMarkup },
                  x : { KeyPlaceholder },
                  v : ValueInputs]
    /\ trail = <<>>
    /\ NoGenerator

SpecSplit == SplitInit /\ [][SubstNext]_vars

\* C19: for markup m in which the token is split across two adjacent text runs,
\* the result of substituting it by v holds one text run with encode(v), and
\* neither of the two runs that held the parts of the token
C19_SplitTokenReplaced ==
    (trail # <<>> /\ input.m \in SplitMarkups) =>
        /\ Includes(trail[1].out, <<WT>> \o escapeForXml(input.v) \o <<WTC>>)
        /\ ~Includes(trail[1].out, <<"p", "l", "a", "c", "e", WTC>>)
        /\ ~Includes(trail[1].out, <<"h", "o", "l", "d", "e", "r">>)

\* the keys of a placeholder set, and the value it gives a key
KeysOf(entries) == { entries[i].k : i \in DOMAIN entries }
ValueAt(entries, key) == entries[CHOOSE i \in DOMAIN entries : entries[i].k = key].v

\* after is before with the entries of given put on top: the keys of given have
\* the values of given, the other keys of before have their values of before, and
\* there is no other key and no key twice
MergedBy(before, given, after) ==
    /\ KeysOf(after) = KeysOf(before) \cup KeysOf(given)
    /\ Cardinality(KeysOf(after)) = Len(after)
    /\ \A key \in KeysOf(given) : ValueAt(after, key) = ValueAt(given, key)
    /\ \A key \in KeysOf(before) \ KeysOf(given) :
           ValueAt(after, key) = ValueAt(before, key)

\* C20: a setData, setHeader or setFooter call that changes its set leaves every
\* key with the value of the call when the call gives the key and with its earlier
\* value when not, and leaves the other two sets and all else as they were
C20_SettersMerge ==
    [][/\ (data' # data /\ data' # <<>>) =>
            /\ \E d \in DataInputs : MergedBy(data, d, data')
            /\ UNCHANGED <<headerData, footerData, images, tables, zip, templateLoaded>>
       /\ (headerData' # headerData /\ headerData' # <<>>) =>
            /\ \E d \in HeaderInputs : MergedBy(headerData, d, headerData')
            /\ UNCHANGED <<data, footerData, images, tables, zip, templateLoaded>>
       /\ (footerData' # footerData /\ footerData' # <<>>) =>
            /\ \E d \in FooterInputs : MergedBy(footerData, d, footerData')
            /\ UNCHANGED <<data, headerData, images, tables, zip, templateLoaded>>]_vars

\* two setData calls have given the two keys, and the header and footer sets hold
\* their own values for the title
C20_Witness ==
    /\ KeysOf(data) = { KeyTitle, KeyNote }
    /\ ValueAt(data, KeyTitle) = <<"A", "&", "B">>
    /\ KeysOf(headerData) = { KeyTitle, KeySum }
    /\ ValueAt(headerData, KeyTitle) = <<"H">>
    /\ KeysOf(footerData) = { KeyTitle }
    /\ ValueAt(footerData, KeyTitle) = <<"F">>

(***************************************************************************)
(* The repair harness: fixDoubleEscaping is applied, up to MaxOps times,   *)
(* to text that holds one entity escaped three times.                      *)
(***************************************************************************)

Entities == { AMP, LT, GT, QUOT, APOS }

\* an entity escaped n times: the & of the entity escaped n - 1 times is encoded
RECURSIVE Escaped(_, _)
Escaped(n, entity) == IF n <= 1 THEN entity ELSE AMP \o Tail(Escaped(n - 1, entity))

Surroundings == { <<>>, <<"a">>, <<"a", " ">>, <<"<">> }

TripleEscapedInputs ==
    { pre \o Escaped(3, e) \o post : pre \in Surroundings, e \in Entities,
                                     post \in Surroundings }

RepairInit ==
    /\ input \in TripleEscapedInputs
    /\ trail = <<>>
    /\ NoGenerator

SpecRepair == RepairInit /\ [][Repair]_vars

\* C21: for every text that holds an entity escaped three times, one repair gives
\* the text with that entity escaped twice
C21_RepairRemovesOneLevel ==
    Ops = <<"repair">> =>
        \A pre \in Surroundings, e \in Entities, post \in Surroundings :
            input = pre \o Escaped(3, e) \o post =>
                trail[1].out = pre \o Escaped(2, e) \o post

(***************************************************************************)
(* The pass harness: one part is processed pass by pass, as generate()     *)
(* does it: for each key of the data the three passes of                   *)
(* replacePlaceholder, then fixDoubleEscaping, then (document part only)   *)
(* processTables, then replaceImagePlaceholders.  trail is the log of the  *)
(* passes run, each with the content it left.                              *)
(***************************************************************************)

MaxKeys == 2

\* the three replacements of replacePlaceholder, one by one
BracketedPass(content, placeholder, value) ==
    replaceAll(content, Braced(placeholder), escapeForXml(value))
BarePass(content, placeholder, value) ==
    replaceAll(content, <<WT>> \o placeholder \o <<WTC>>,
               <<WT>> \o escapeForXml(value) \o <<WTC>>)
SplitPass(content, placeholder, value) ==
    ReplaceSplitFrom(content, 1, placeholder, <<WT>> \o escapeForXml(value) \o <<WTC>>)

Forms == <<"bracketed", "bare", "split">>

\* a generate() that repairs after the passes of each key
NextPassRepairEachKey(part, done, n) ==
    IF done < 4 * n THEN (IF done % 4 = 3 THEN "repair" ELSE Forms[(done % 4) + 1])
    ELSE "done"

\* the pass that runs when done passes have run on a part, for data of n keys
NextPass(part, done, n) ==
    IF done < 3 * n THEN Forms[(done % 3) + 1]
    ELSE IF done = 3 * n THEN "repair"
    ELSE IF part = "document" /\ done = 3 * n + 1 THEN "tables"
    ELSE IF done = 3 * n + (IF part = "document" THEN 2 ELSE 1) THEN "images"
    ELSE "done"

\* the entry whose passes are running: the one after those whose split pass is done
KeyIndex(log) == Cardinality({ i \in DOMAIN log : log[i].op = "split" }) + 1

EntryPool ==
    { [k |-> KeyTitle, v |-> <<"A", "&", "B">>], [k |-> KeyTitle, v |-> Braced(KeyNote)],
      [k |-> KeyTitle, v |-> KeyNote], [k |-> KeyNote, v |-> <<"N">>],
      [k |-> KeyX, v |-> <<"1">>] }

EntryLists ==
    { e \in UNION { [1..n -> EntryPool] : n \in 0..MaxKeys } :
        \A i, j \in DOMAIN e : e[i].k = e[j].k => i = j }

PartInputs ==
    { [part |-> "document", m |-> BodyShared],
      [part |-> "header", m |-> <<"<w:hdr>">> \o Paragraph(KeyTitle)
                                \o Paragraph(Braced(KeyLogo)) \o <<"</w:hdr>">>] }

OneTable == CHOOSE t \in TableConfigs : Len(t.rows) = 1
OnePrepared == prepareImage([NoImageProps EXCEPT !.buffer = "bytes-1"], 0, <<>>, "rIdAB1234")

PassInit ==
    /\ input \in { [part |-> p.part, m |-> p.m, entries |-> e, tables |-> t,
                    prepared |-> i] :
                     p \in PartInputs, e \in EntryLists, t \in { <<>>, <<OneTable>> },
                     i \in { <<>>, <<OnePrepared>> } }
    /\ trail = <<>>
    /\ NoGenerator

PassDue == NextPass(input.part, Len(trail), Len(input.entries))

\* one of the three replacements of replacePlaceholder, for the key in turn
SubstitutionPass ==
    /\ PassDue \in { "bracketed", "bare", "split" }
    /\ LET entry == input.entries[KeyIndex(trail)]
           out == CASE PassDue = "bracketed" -> BracketedPass(Current.m, entry.k, entry.v)
                    [] PassDue = "bare" -> BarePass(Current.m, entry.k, entry.v)
                    [] OTHER -> SplitPass(Current.m, entry.k, entry.v)
       IN  trail' = Append(trail, [op |-> PassDue, key |-> entry.k, out |-> [m |-> out]])
    /\ UNCHANGED <<input, genVars>>

\* fixDoubleEscaping at the end of processPlaceholders
RepairPass ==
    /\ PassDue = "repair"
    /\ trail' = Append(trail, [op |-> "repair", key |-> <<>>,
                               out |-> [m |-> fixDoubleEscaping(Current.m)]])
    /\ UNCHANGED <<input, genVars>>

TablePass ==
    /\ PassDue = "tables"
    /\ trail' = Append(trail, [op |-> "tables", key |-> <<>>,
                               out |-> [m |-> processTables(Current.m, input.tables)]])
    /\ UNCHANGED <<input, genVars>>

ImagePass ==
    /\ PassDue = "images"
    /\ trail' = Append(trail,
                   [op |-> "images", key |-> <<>>,
                    out |-> [m |-> replaceImagePlaceholders(Current.m, input.prepared)]])
    /\ UNCHANGED <<input, genVars>>

PassNext == SubstitutionPass \/ RepairPass \/ TablePass \/ ImagePass

SpecPasses == PassInit /\ [][PassNext]_vars

\* C22: in the log of a part, the passes of each key are bracketed, bare, split
\* in this order, key after key; the repair pass is in the log once at most, after
\* the passes of all keys; the table and image passes come after the repair
C22_PassOrder ==
    LET n == Len(input.entries)
    IN  \A i \in DOMAIN trail :
            /\ i <= 3 * n =>
                 /\ trail[i].op = <<"bracketed", "bare", "split">>[((i - 1) % 3) + 1]
                 /\ trail[i].key = input.entries[((i - 1) \div 3) + 1].k
            /\ trail[i].op = "repair" <=> i = 3 * n + 1
            /\ trail[i].op \in { "tables", "images" } => i > 3 * n + 1
            /\ i > 1 /\ trail[i].op = "tables" => trail[i - 1].op = "repair"
            /\ i <= 3 * n + 3

\* a document part has been processed to its end for two keys: nine passes
C22_Witness ==
    /\ Len(input.entries) = 2
    /\ input.part = "document"
    /\ input.tables # <<>>
    /\ input.prepared # <<>>
    /\ Len(trail) = 9
    /\ trail[7].op = "repair"
    /\ trail[8].op = "tables"
    /\ trail[9].op = "images"

(***************************************************************************)
(* The registry harness: addRelationship is applied once to a              *)
(* relationships part and a relationship element.                          *)
(***************************************************************************)

RegistryEntries ==
    <<TemplateRelationship("rId1", "styles"), TemplateRelationship("rId2", "settings"),
      generateImageRelationship("rId101", "image1.png")>>

\* the relationships parts: an XML declaration or none, a subsequence of the
\* entries, each on a line of its own or not, and the closing tag
Registries ==
    { head \o <<"<Relationships>">>
      \o Flatten([i \in 1..Len(RegistryEntries) |->
                    IF i \in kept THEN <<RegistryEntries[i]>> \o sep ELSE <<>>])
      \o <<RelsClose>> :
        head \in { <<>>, <<"<?xml version=\"1.0\"?>", "\n">> },
        kept \in SUBSET (1..Len(RegistryEntries)),
        sep \in { <<>>, <<"\n">> } }

Fragments ==
    { generateImageRelationship(id, f) :
        id \in { "rId101", "rId102", "rIdAB1234" }, f \in { "image1.png", "image2.jpg" } }

RegistryInit ==
    /\ input \in [rels : Registries, fragment : Fragments]
    /\ trail = <<>>
    /\ NoGenerator

AddRelationship ==
    /\ trail = <<>>
    /\ trail' = <<[op |-> "addRelationship",
                   out |-> addRelationship(input.rels, input.fragment)]>>
    /\ UNCHANGED <<input, genVars>>

SpecRegistry == RegistryInit /\ [][AddRelationship]_vars

\* C23: the result of addRelationship is its input with the new element (and a
\* line break) put in right before the closing </Relationships>: all that stood
\* before the closing tag stands before the new element, unchanged, and the
\* element is in the result once more than in the input
C23_RelationshipInserted ==
    trail # <<>> =>
        LET rels == input.rels
            out == trail[1].out
            at == CHOOSE n \in DOMAIN rels : rels[n] = RelsClose
            count(xml) == Cardinality({ n \in DOMAIN xml : xml[n] = input.fragment })
        IN  /\ out = SubSeq(rels, 1, at - 1) \o <<input.fragment, "\n", RelsClose>>
                     \o SubSeq(rels, at + 1, Len(rels))
            /\ count(out) = count(rels) + 1
            /\ \A n \in 1..(at - 1) : out[n] = rels[n]

\* an element has been added to a part that held three, one of them the same
\* element
C23_Witness ==
    /\ trail # <<>>
    /\ \A i \in DOMAIN RegistryEntries :
          \E n \in DOMAIN input.rels : input.rels[n] = RegistryEntries[i]
    /\ input.fragment = RegistryEntries[3]
    /\ trail[1].out[Len(trail[1].out)] = RelsClose
    /\ trail[1].out[Len(trail[1].out) - 2] = input.fragment

(***************************************************************************)
(* The loop harness: the collision loop of prepareImage, one iteration a   *)
(* step.  trail holds the id after each iteration, and the exit.           *)
(***************************************************************************)

MaxIterations == 6

LoopIdLists ==
    ExistingIdLists \cup { <<"rId102">>, <<"rId102", "rId101", "rId103">>,
                           <<"rId9", "rId101", "rId102", "rId103", "rId104">> }

StartIds == RandomIds \cup { "rId1", "rId9", "rId101" }

LoopInit ==
    /\ input \in [start : StartIds, index : 0..MaxIndex, existingIds : LoopIdLists]
    /\ trail = <<>>
    /\ NoGenerator

LoopId == IF trail = <<>> THEN input.start ELSE trail[Len(trail)].out
LoopExited == trail # <<>> /\ trail[Len(trail)].op = "exit"

\* the body of while (existingIds.includes(id)); counter is 1 + the iterations done
LoopIteration ==
    /\ ~LoopExited
    /\ Len(trail) < MaxIterations
    /\ LoopId \in Range(input.existingIds)
    /\ trail' = Append(trail, [op |-> "iterate",
                               out |-> FallbackId(input.index, Len(trail) + 1)])
    /\ UNCHANGED <<input, genVars>>

\* the test of the while fails
LoopExit ==
    /\ ~LoopExited
    /\ LoopId \notin Range(input.existingIds)
    /\ trail' = Append(trail, [op |-> "exit", out |-> LoopId])
    /\ UNCHANGED <<input, genVars>>

LoopNext == LoopIteration \/ LoopExit

SpecLoop == LoopInit /\ [][LoopNext]_vars /\ WF_vars(LoopNext)

\* C24: the collision loop of prepareImage ends, with an id that is not among the
\* existing ids
C24_LoopTerminates ==
    <>(LoopExited /\ LoopId \notin Range(input.existingIds))

\* the loop has ended after three iterations or more
C24_Witness ==
    /\ LoopExited
    /\ Len(trail) >= 4
    /\ LoopId \notin Range(input.existingIds)

\* content from position i on is  k_j f k_j+1 f ... k_n w  in the letter case of
\* the key, each f a run of characters that are no letters, w white space
RECURSIVE SameCaseFrom(_, _, _, _)
SameCaseFrom(content, i, key, j) ==
    IF j > Len(key)
    THEN \A n \in i..Len(content) : content[n] \in WhiteSpace
    ELSE /\ i <= Len(content)
         /\ content[i] = key[j]
         /\ \E f \in 0..(Len(content) - i) :
               /\ \A n \in (i + 1)..(i + f) : content[n] \notin Letters
               /\ SameCaseFrom(content, i + 1 + f, key, j + 1)

\* the markup holds the token in a documented form: in braces, or as the content
\* of one text run, alone or with characters that are no letters in between
DocumentedForm(m, key) ==
    \/ Includes(m, Braced(key))
    \/ \E b, e \in DOMAIN m :
          /\ b < e
          /\ m[b] \in { WT, WTP }
          /\ m[e] = WTC
          /\ \A n \in (b + 1)..(e - 1) : IsChar(m[n])
          /\ \E w \in 0..(e - b - 1) :
                /\ \A n \in (b + 1)..(b + w) : m[n] \in WhiteSpace
                /\ SameCaseFrom(SubSeq(m, b + 1, e - 1), w + 1, key, 1)

\* C25: markup that holds the token in no documented form (in the letter case
\* of the name) comes back from the substitution unchanged
C25_OnlyDocumentedForms ==
    (trail # <<>> /\ ~DocumentedForm(input.m, input.x)) => trail[1].out = input.m

\* C26: after the first generate() with images whose placeholder is the name logo,
\* the document holds the inline drawing of the image where {{logo}} stood, with
\* no {{ before it and no }} after it
C26_BracedImageTokenConsumed ==
    (calls[1].pc = "done" /\ calls[1].prepared # <<>>) =>
        LET doc == calls[1].result[DocumentPath]
            drawing == calls[1].prepared[1].inlineXml
        IN  /\ Includes(doc, drawing)
            /\ ~Includes(doc, Braced(KeyLogo))
            /\ ~Includes(doc, <<"{", "{">> \o drawing)
            /\ ~Includes(doc, drawing \o <<"}", "}">>)

\* the media entries of an archive
MediaEntries(z) == { n \in DOMAIN z : n \notin RewrittenEntries }

\* C27: two generate() calls with no other call in between return archives with
\* the same document part, the same relationships part and the same media entries
C27_GenerateRepeatable ==
    (calls[1].pc = "done" /\ calls[2].pc = "done") =>
        /\ calls[2].result[DocumentPath] = calls[1].result[DocumentPath]
        /\ calls[2].result[RelsPath] = calls[1].result[RelsPath]
        /\ MediaEntries(calls[2].result) = MediaEntries(calls[1].result)

\* the generator with images only, generate() calls that may overlap: a call may
\* begin while another one waits for the bytes of an image
OverlapNext ==
    \/ LoadTemplate
    \/ SetImages
    \/ GenerateBegin
    \/ PrepareImage
    \/ PrepareImageFails
    \/ Assemble

SpecOverlap == Init /\ [][OverlapNext]_vars

\* C28: the ids of the entries of the relationships part are pairwise distinct
C28_RegistryIdsDistinct ==
    HasEntry(zip, RelsPath) =>
        LET ids == extractRelationshipIds(zip[RelsPath])
        IN  \A i, j \in DOMAIN ids : ids[i] = ids[j] => i = j

\* a template whose archive has no relationships part
TemplateNoRegistry ==
    [ n \in { DocumentPath, ContentTypesPath } |-> TemplatePlain[n] ]

\* a template whose relationships part is an empty element, <Relationships/>
TemplateEmptyRegistry ==
    [ n \in DOMAIN TemplatePlain |->
        IF n = RelsPath THEN <<"<Relationships/>">> ELSE TemplatePlain[n] ]

UnusualTemplates == { TemplateNoRegistry, TemplateEmptyRegistry }

\* loadTemplate of such an archive: the entries of the archive are not looked at
LoadUnusualTemplate ==
    /\ NoCallBegun
    /\ \E t \in UnusualTemplates : zip' = t
    /\ templateLoaded' = TRUE
    /\ UNCHANGED <<harnessVars, data, headerData, footerData, images, tables, calls>>

\* the generator with images only and every kind of template, each generate()
\* awaited before the next
RegistriesNext ==
    \/ LoadTemplate
    \/ LoadUnusualTemplate
    \/ SetImages
    \/ GenerateInTurn
    \/ PrepareImage
    \/ PrepareImageFails
    \/ Assemble

SpecRegistries == Init /\ [][RegistriesNext]_vars

\* the drawing of a prepared image stands in the document part of an archive
DrawingInserted(z, image) ==
    HasEntry(z, DocumentPath) /\ Includes(z[DocumentPath], image.inlineXml)

\* the relationship and the media file of a prepared image are in an archive
ImageRegistered(z, image) ==
    /\ HasEntry(z, RelsPath)
    /\ Has(extractRelationshipIds(z[RelsPath]), image.id)
    /\ HasEntry(z, MediaPath(image.fileName))

\* C29: after a successful generate(), every drawing inserted into the document
\* body refers to an id that has an entry in the relationships part, and its media
\* file is in the archive
C29_DrawingsResolved ==
    \A c \in DOMAIN calls :
        calls[c].pc = "done" =>
            \A i \in DOMAIN calls[c].prepared :
                DrawingInserted(calls[c].result, calls[c].prepared[i]) =>
                    ImageRegistered(calls[c].result, calls[c].prepared[i])

\* Object.entries(data) of the same data written in the opposite order
ReversedEntries(entries) == [i \in DOMAIN entries |-> entries[Len(entries) + 1 - i]]

\* a token of the key stands in the content, in the bracketed or in the bare form
KeyStands(content, key) ==
    Includes(content, Braced(key)) \/ Includes(content, <<WT>> \o key \o <<WTC>>)

\* C30: when processPlaceholders has run on a part (its repair pass is done), the
\* result holds the encoded value of every key that stood in the part, and it is
\* the result the same data gives when its keys are processed in the opposite order
C30_KeysIndependent ==
    LET n == Len(input.entries)
    IN  Len(trail) > 3 * n =>
            /\ \A i \in DOMAIN input.entries :
                   KeyStands(input.m, input.entries[i].k) =>
                       Includes(trail[3 * n + 1].out.m, escapeForXml(input.entries[i].v))
            /\ trail[3 * n + 1].out.m
                   = processPlaceholders(input.m, ReversedEntries(input.entries))

====
